---- MODULE Spec2Model ----
(***************************************************************************)
(* A model of the MPIF parser and serializer (class MPIFParser): parse     *)
(* turns MPIF text into an MPIFData document, stringify turns a document   *)
(* back into text; between the two, the synthesis-details form adds and    *)
(* removes records.  Strings are TLA+ strings and are taken apart with Len *)
(* and SubSeq, character by character, as the JavaScript code does.        *)
(* JavaScript values are tagged records: undefined, strings and numbers.   *)
(* Indices are 1-based here; an index the code reports as -1 is 0 here.    *)
(* The store (mpifStore.ts) keeps the document with the dashboard, file    *)
(* and validation state; the dashboard (Dashboard.tsx) loads and exports   *)
(* it, and the open form saves its edits from a timeout.                   *)
(***************************************************************************)
EXTENDS Integers, Sequences, FiniteSets

VARIABLES
    lines,      \* MPIFParser.lines: the trimmed lines of the last parsed text
    content,    \* the text of the file at hand (what parse is called with)
    data,       \* the MPIFData document at hand (NoData before there is one)
    text,       \* the text stringify returned, when it was the last operation
    thrown,     \* the error thrown by the last call (NoError when it returned)
    op,         \* the last operation that ran
    dashboard,  \* the store's dashboard state
    fileState,  \* the store's file state
    validation, \* the store's validation result
    form,       \* the open form: its field values and its isDirty flag
    timers      \* the pending timeouts: the form's auto-save and the export

ui == <<dashboard, fileState, validation, form, timers>>

vars == <<lines, content, data, text, thrown, op, dashboard, fileState,
          validation, form, timers>>

\* ------------------------------------------------------------------------
\* JavaScript values
\* ------------------------------------------------------------------------

Undefined == [t |-> "undefined"]

Str(s) == [t |-> "string", v |-> s]

\* A finite number m * 10^(-e), kept normalised: e = 0 or m not divisible by 10.
Num(m, e) == [t |-> "number", m |-> m, e |-> e]

NaN == [t |-> "NaN"]

\* An exception in flight: the value of an expression that threw.
TypeError == [t |-> "TypeError"]

IsStr(v) == v.t = "string"

IsNum(v) == v.t = "number"

isNaN(v) == v.t = "NaN"

\* JavaScript truthiness: undefined, '', 0 and NaN are falsy.
Truthy(v) ==
    CASE v.t = "undefined" -> FALSE
      [] v.t = "NaN" -> FALSE
      [] v.t = "string" -> v.v # ""
      [] v.t = "number" -> v.m # 0
      [] OTHER -> TRUE

\* a || b
Or(a, b) == IF Truthy(a) THEN a ELSE b

Digits == "0123456789"

DigitChar(d) == SubSeq(Digits, d + 1, d + 1)

IsDigit(c) == c \in {"0", "1", "2", "3", "4", "5", "6", "7", "8", "9"}

DigitValue(c) == CHOOSE d \in 0..9 : DigitChar(d) = c

RECURSIVE NatToString(_)
NatToString(n) ==
    IF n < 10 THEN DigitChar(n)
    ELSE NatToString(n \div 10) \o DigitChar(n % 10)

RECURSIVE Pow10(_)
Pow10(e) == IF e = 0 THEN 1 ELSE 10 * Pow10(e - 1)

RECURSIVE Zeros(_)
Zeros(n) == IF n = 0 THEN "" ELSE "0" \o Zeros(n - 1)

\* Number.prototype.toString for a finite decimal in the plain (non-exponent)
\* range: "5", "5.1", "0.05", "-3.2".
NumberToString(x) ==
    LET a == IF x.m < 0 THEN -x.m ELSE x.m
        sign == IF x.m < 0 THEN "-" ELSE ""
        ip == a \div Pow10(x.e)
        fp == a % Pow10(x.e)
        fs == NatToString(fp)
    IN  IF x.e = 0 THEN sign \o NatToString(a)
        ELSE sign \o NatToString(ip) \o "." \o Zeros(x.e - Len(fs)) \o fs

\* `${v}`: the string a template literal puts in place of v.
ToString(v) ==
    CASE v.t = "undefined" -> "undefined"
      [] v.t = "NaN" -> "NaN"
      [] v.t = "string" -> v.v
      [] v.t = "number" -> NumberToString(v)

\* ------------------------------------------------------------------------
\* String primitives
\* ------------------------------------------------------------------------

CharAt(s, i) == SubSeq(s, i, i)

\* The characters String.prototype.trim removes (those the model's texts use).
IsSpace(c) == c \in {" ", "\t", "\n", "\r"}

\* s.startsWith(p)
StartsWith(s, p) == Len(s) >= Len(p) /\ SubSeq(s, 1, Len(p)) = p

\* s.includes(p)
Includes(s, p) ==
    \E i \in 1..(Len(s) - Len(p) + 1) : SubSeq(s, i, i + Len(p) - 1) = p

\* The first index >= i of character c in s, 0 when there is none.
IndexOf(s, c, i) ==
    LET S == {j \in i..Len(s) : CharAt(s, j) = c}
    IN  IF S = {} THEN 0 ELSE CHOOSE j \in S : \A k \in S : j <= k

\* A sequence written as a function, as the tuple of its elements (TLC
\* evaluates each element once to build the tuple).
Tuple(f) == f \o <<>>

\* The positions of character c in s[lo..hi], in increasing order.
RECURSIVE Positions(_, _, _, _)
Positions(s, c, lo, hi) ==
    IF lo > hi THEN <<>>
    ELSE IF lo = hi THEN (IF CharAt(s, lo) = c THEN <<lo>> ELSE <<>>)
    ELSE Positions(s, c, lo, (lo + hi) \div 2)
         \o Positions(s, c, (lo + hi) \div 2 + 1, hi)

\* The pieces of s between the positions pos of its separators.
Pieces(s, pos) ==
    Tuple([k \in 1..(Len(pos) + 1) |->
              SubSeq(s, (IF k = 1 THEN 0 ELSE pos[k - 1]) + 1,
                        (IF k > Len(pos) THEN Len(s) + 1 ELSE pos[k]) - 1)])

\* s.split(c) for a one-character separator c
Split(s, c) == Pieces(s, Positions(s, c, 1, Len(s)))

RECURSIVE FirstNonSpace(_, _)
FirstNonSpace(s, i) ==
    IF i > Len(s) THEN i
    ELSE IF IsSpace(CharAt(s, i)) THEN FirstNonSpace(s, i + 1)
    ELSE i

RECURSIVE LastNonSpace(_, _)
LastNonSpace(s, i) ==
    IF i < 1 THEN i
    ELSE IF IsSpace(CharAt(s, i)) THEN LastNonSpace(s, i - 1)
    ELSE i

\* s.trim()
Trim(s) == SubSeq(s, FirstNonSpace(s, 1), LastNonSpace(s, Len(s)))

\* s.replace(/'/g, ''): every single quote removed
RECURSIVE RemoveQuotesFrom(_, _)
RemoveQuotesFrom(s, i) ==
    LET j == IndexOf(s, "'", i)
    IN  IF j = 0 THEN SubSeq(s, i, Len(s))
        ELSE SubSeq(s, i, j - 1) \o RemoveQuotesFrom(s, j + 1)

ReplaceQuotes(s) == RemoveQuotesFrom(s, 1)

\* The end of the run of digits that starts at i (i - 1 when there is none).
RECURSIVE DigitsEnd(_, _)
DigitsEnd(s, i) ==
    IF i <= Len(s) /\ IsDigit(CharAt(s, i)) THEN DigitsEnd(s, i + 1) ELSE i - 1

\* The number written by the digits s[i..j].
RECURSIVE DigitsValue(_, _, _)
DigitsValue(s, i, j) ==
    IF j < i THEN 0 ELSE 10 * DigitsValue(s, i, j - 1) + DigitValue(CharAt(s, j))

RECURSIVE Normalise(_, _)
Normalise(m, e) ==
    IF e > 0 /\ m % 10 = 0 THEN Normalise(m \div 10, e - 1) ELSE Num(m, e)

\* parseFloat(s): leading white space, an optional sign, then the longest
\* prefix of the form digits [. digits] or . digits; NaN when there is no digit.
\* (Exponents and "Infinity" are outside the texts modelled.)
parseFloatStr(s) ==
    LET b == FirstNonSpace(s, 1)
        signed == b <= Len(s) /\ CharAt(s, b) \in {"+", "-"}
        neg == signed /\ CharAt(s, b) = "-"
        i0 == IF signed THEN b + 1 ELSE b
        i1 == DigitsEnd(s, i0)
        dot == i1 + 1 <= Len(s) /\ CharAt(s, i1 + 1) = "."
        f1 == IF dot THEN DigitsEnd(s, i1 + 2) ELSE i1
        nInt == i1 - i0 + 1
        nFrac == IF dot THEN f1 - (i1 + 1) ELSE 0
        mag == DigitsValue(s, i0, i1) * Pow10(nFrac)
               + (IF nFrac > 0 THEN DigitsValue(s, i1 + 2, f1) ELSE 0)
    IN  IF nInt = 0 /\ nFrac = 0 THEN NaN
        ELSE Normalise(IF neg THEN -mag ELSE mag, nFrac)

\* parseFloat(v) for a JavaScript value: the argument is converted to a string
parseFloat(v) == parseFloatStr(ToString(v))

\* parseInt(s): leading white space, an optional sign, then the digits.
parseIntStr(s) ==
    LET b == FirstNonSpace(s, 1)
        signed == b <= Len(s) /\ CharAt(s, b) \in {"+", "-"}
        neg == signed /\ CharAt(s, b) = "-"
        i0 == IF signed THEN b + 1 ELSE b
        i1 == DigitsEnd(s, i0)
        mag == DigitsValue(s, i0, i1)
    IN  IF i1 < i0 THEN NaN ELSE Num(IF neg THEN -mag ELSE mag, 0)

parseInt(v) == parseIntStr(ToString(v))

\* ------------------------------------------------------------------------
\* The parser's helpers
\* ------------------------------------------------------------------------

\* v.replace(/'/g, ''): a method call, which throws when v is not a string
Replace(v) == IF IsStr(v) THEN Str(ReplaceQuotes(v.v)) ELSE TypeError

\* The call without optional chaining: v.replace(/'/g, '')
OptReplace_Unguarded(v) == Replace(v)

\* v?.replace(/'/g, ''): undefined when v is undefined
OptReplace(v) == IF v = Undefined THEN Undefined ELSE Replace(v)

\* line.split('\t')[k - 1]: undefined when the line has fewer parts
Part(line, k) ==
    LET parts == Split(line, "\t")
    IN  IF Len(parts) >= k THEN Str(parts[k]) ELSE Undefined

\* The least element of a non-empty set of indices.
Least(S) == CHOOSE i \in S : \A j \in S : i <= j

\* findLineIndex(searchText): the first line that starts with searchText
\* (0 when there is none, where the code has -1)
findLineIndex(ls, searchText) ==
    LET S == {i \in 1..Len(ls) : StartsWith(ls[i], searchText)}
    IN  IF S = {} THEN 0 ELSE Least(S)

\* The pattern without its anchors: /data_(.+)/
MatchesDataHeader_Unanchored(line) ==
    \E i \in 1..(Len(line) - Len("data_")) :
        SubSeq(line, i, i + Len("data_") - 1) = "data_"

\* line.match(/^data_(.+)$/): "." matches no line terminator
MatchesDataHeader(line) ==
    /\ StartsWith(line, "data_")
    /\ Len(line) > Len("data_")
    /\ \A i \in 1..Len(line) : CharAt(line, i) \notin {"\n", "\r"}

\* findLine(/^data_(.+)$/)[0]: the whole matched line, not the captured name
findDataName_WholeMatch(ls) ==
    LET S == {i \in 1..Len(ls) : MatchesDataHeader(ls[i])}
    IN  IF S = {} THEN Undefined ELSE Str(ls[Least(S)])

\* findLine(/^data_(.+)$/)[1]: the name in the first data_ line, Undefined
\* when findLine returns null
findDataName(ls) ==
    LET S == {i \in 1..Len(ls) : MatchesDataHeader(ls[i])}
    IN  IF S = {} THEN Undefined
        ELSE Str(SubSeq(ls[Least(S)], Len("data_") + 1, Len(ls[Least(S)])))

\* extractValue(key)
extractValue(ls, key) ==
    LET k == findLineIndex(ls, key)
    IN  IF k = 0 THEN Undefined
        ELSE LET parts == Split(ls[k], "\t")
             IN  IF Len(parts) > 1 THEN Str(parts[2]) ELSE Undefined

\* content += line: the lines of a block run together.
AppendLine_NoBreak(acc, line) == acc \o line

\* content += (content ? '\n' : '') + line
AppendLine(acc, line) == IF acc # "" THEN acc \o "\n" \o line ELSE line

\* The look-ahead loop as it would be if only a lone ; ended it.
RECURSIVE LookAhead_PastKeyLines(_, _, _)
LookAhead_PastKeyLines(ls, nextLineIndex, acc) ==
    IF nextLineIndex > Len(ls) THEN acc
    ELSE LET nextLine == ls[nextLineIndex]
         IN  IF nextLine = ";" THEN acc
             ELSE IF Trim(nextLine) # ""
                  THEN LookAhead_PastKeyLines(ls, nextLineIndex + 1, acc \o "\n" \o nextLine)
             ELSE LookAhead_PastKeyLines(ls, nextLineIndex + 1, acc)

\* The look-ahead loop of extractTextBlock (lines 575-588), from nextLineIndex.
RECURSIVE LookAhead(_, _, _)
LookAhead(ls, nextLineIndex, acc) ==
    IF nextLineIndex > Len(ls) THEN acc
    ELSE LET nextLine == ls[nextLineIndex]
         IN  IF nextLine = ";" THEN acc
             ELSE IF StartsWith(nextLine, "_") \/ StartsWith(nextLine, "#") THEN acc
             ELSE IF Trim(nextLine) # ""
                  THEN LookAhead(ls, nextLineIndex + 1, acc \o "\n" \o nextLine)
             ELSE LookAhead(ls, nextLineIndex + 1, acc)

\* The for loop of extractTextBlock (lines 559-591), from index i.
RECURSIVE TextBlockLoop(_, _, _, _, _)
TextBlockLoop(ls, i, acc, inBlock, foundStart) ==
    IF i > Len(ls) THEN acc
    ELSE LET line == ls[i]
         IN  IF line = ";"
             THEN IF inBlock THEN acc
                  ELSE TextBlockLoop(ls, i + 1, acc, TRUE, TRUE)
             ELSE IF inBlock
                  THEN TextBlockLoop(ls, i + 1, AppendLine(acc, line), inBlock, foundStart)
             ELSE IF /\ ~foundStart
                     /\ Trim(line) # ""
                     /\ ~StartsWith(line, "_")
                     /\ ~StartsWith(line, "#")
                  THEN LookAhead(ls, i + 1, AppendLine(acc, line))
             ELSE TextBlockLoop(ls, i + 1, acc, inBlock, foundStart)

\* extractTextBlock(key)
extractTextBlock(ls, key) ==
    LET startIndex == findLineIndex(ls, key)
    IN  IF startIndex = 0 THEN Undefined
        ELSE Or(Str(Trim(TextBlockLoop(ls, startIndex + 1, "", FALSE, FALSE))),
                Undefined)

NumericFields == {"molarity", "amount", "purity", "volume"}

\* The type conversion of one column of a loop data line (lines 523-533).
ConvertField(field, value) ==
    IF field \in NumericFields
    THEN LET numValue == parseFloatStr(value)
         IN  IF isNaN(numValue) THEN Undefined ELSE numValue
    ELSE LET v == Trim(value)
         IN  IF v = "?" \/ v = "-" \/ v = "" THEN Undefined ELSE Str(v)

\* The record built from the columns of one data line (lines 520-534).
LoopItem(fields, values) ==
    [f \in {fields[k] : k \in 1..Len(fields)} |->
        LET index == CHOOSE k \in 1..Len(fields) : fields[k] = f
        IN  ConvertField(f, values[index])]

\* The first line at or after loopStart that is no header line (lines 499-506).
DataStart(ls, loopStart) ==
    LET S == {i \in loopStart..Len(ls) :
                /\ ~StartsWith(ls[i], "_mpif_")
                /\ ~StartsWith(ls[i], "loop_")
                /\ Trim(ls[i]) # ""}
    IN  IF S = {} THEN loopStart ELSE Least(S)

\* The data loop with "break" where the code has "continue": a line with too
\* few columns ends the loop.
RECURSIVE LoopDataLoop_ShortLineEnds(_, _, _, _, _)
LoopDataLoop_ShortLineEnds(ls, i, count, fields, results) ==
    IF ~(i <= Len(ls) /\ IsNum(count) /\ Len(results) < count.m) THEN results
    ELSE LET line == ls[i]
             values == Split(line, "\t")
         IN  IF StartsWith(line, "_mpif_") \/ StartsWith(line, "#") \/ line = ""
             THEN results
             ELSE IF Len(values) < Len(fields) THEN results
             ELSE LoopDataLoop_ShortLineEnds(ls, i + 1, count, fields,
                                             Append(results, LoopItem(fields, values)))

\* The data loop of parseLoopData (lines 508-538), from index i.
RECURSIVE LoopDataLoop(_, _, _, _, _)
LoopDataLoop(ls, i, count, fields, results) ==
    IF ~(i <= Len(ls) /\ IsNum(count) /\ Len(results) < count.m) THEN results
    ELSE LET line == ls[i]
             values == Split(line, "\t")
         IN  IF StartsWith(line, "_mpif_") \/ StartsWith(line, "#") \/ line = ""
             THEN results
             ELSE IF Len(values) < Len(fields)
                  THEN LoopDataLoop(ls, i + 1, count, fields, results)
             ELSE LoopDataLoop(ls, i + 1, count, fields,
                               Append(results, LoopItem(fields, values)))

\* parseLoopData(type, fields)
parseLoopData(ls, type, fields) ==
    LET numberKey == "_mpif_" \o type \o "_number"
        count == parseInt(Or(extractValue(ls, numberKey), Str("0")))
        loopStart == findLineIndex(ls, "_mpif_" \o type \o "_id")
    IN  IF count = Num(0, 0) THEN <<>>
        ELSE IF loopStart = 0 THEN <<>>
        ELSE LoopDataLoop(ls, DataStart(ls, loopStart), count, fields, <<>>)

\* ------------------------------------------------------------------------
\* parse: the sections of the document
\* ------------------------------------------------------------------------

\* extractValue(key)?.replace(/'/g, '')
unquoted(ls, key) == OptReplace(extractValue(ls, key))

\* parseFloat(extractValue(key) || '0')
floatOrZero(ls, key) == parseFloat(Or(extractValue(ls, key), Str("0")))

parseMetadata(ls) ==
    [dataName |-> LET name == findDataName(ls)
                  IN  IF name # Undefined THEN name ELSE Str(""),
     creationDate |-> Or(extractValue(ls, "_mpif_audit_creation_date"), Str("")),
     generatorVersion |->
        Or(extractValue(ls, "_mpif_audit_generator_version"), Str("")),
     publicationDOI |-> Or(unquoted(ls, "_mpif_audit_publication_doi"), Str("")),
     procedureStatus |->
        Or(unquoted(ls, "_mpif_audit_procedure_status"), Str("test"))]

parseAuthorDetails(ls) ==
    [name |-> Or(unquoted(ls, "_mpif_audit_contact_author_name"), Str("")),
     email |-> Or(extractValue(ls, "_mpif_audit_contact_author_email"), Str("")),
     orcid |-> Or(extractValue(ls, "_mpif_audit_contact_author_id_orcid"), Str("")),
     address |-> Or(unquoted(ls, "_mpif_audit_contact_author_address"), Str("")),
     phone |-> Or(extractValue(ls, "_mpif_audit_contact_author_phone"), Str(""))]

parseProductInfo(ls) ==
    [type |-> Or(unquoted(ls, "_mpif_product_type"), Str("other")),
     casNumber |-> extractValue(ls, "_mpif_product_cas"),
     ccdcNumber |-> unquoted(ls, "_mpif_product_ccdc"),
     commonName |-> Or(unquoted(ls, "_mpif_product_name_common"), Str("")),
     systematicName |-> unquoted(ls, "_mpif_product_name_systematic"),
     formula |-> unquoted(ls, "_mpif_product_formula"),
     formulaWeight |-> Or(floatOrZero(ls, "_mpif_product_formula_weight"), Undefined),
     state |-> Or(unquoted(ls, "_mpif_product_state"), Str("solid")),
     color |-> Or(unquoted(ls, "_mpif_product_color"), Str("#000000")),
     handlingAtmosphere |->
        Or(unquoted(ls, "_mpif_product_handling_atmosphere"), Str("air")),
     handlingNote |-> extractTextBlock(ls, "_mpif_product_handling_note")]

parseSynthesisGeneral(ls) ==
    [performedDate |-> Or(extractValue(ls, "_mpif_synthesis_performed_date"), Str("")),
     labTemperature |-> floatOrZero(ls, "_mpif_synthesis_lab_temperature_C"),
     labHumidity |-> floatOrZero(ls, "_mpif_synthesis_lab_humidity_percent"),
     reactionType |-> Or(unquoted(ls, "_mpif_synthesis_type"), Str("mix")),
     reactionTemperature |-> floatOrZero(ls, "_mpif_synthesis_react_temperature_C"),
     temperatureController |->
        Or(unquoted(ls, "_mpif_synthesis_react_temperature_controller"),
           Str("ambient")),
     reactionTime |-> floatOrZero(ls, "_mpif_synthesis_react_time"),
     reactionTimeUnit |-> Or(unquoted(ls, "_mpif_synthesis_react_time_unit"), Str("h")),
     reactionAtmosphere |->
        Or(unquoted(ls, "_mpif_synthesis_react_atmosphere"), Str("air")),
     reactionContainer |->
        Or(unquoted(ls, "_mpif_synthesis_react_container"), Str("")),
     reactionNote |-> extractTextBlock(ls, "_mpif_synthesis_react_note"),
     productAmount |-> floatOrZero(ls, "_mpif_synthesis_product_amount"),
     productAmountUnit |->
        Or(unquoted(ls, "_mpif_synthesis_product_amount_unit"), Str("mg")),
     productYield |->
        Or(floatOrZero(ls, "_mpif_synthesis_product_yield_percent"), Undefined),
     scale |-> Or(unquoted(ls, "_mpif_synthesis_scale"), Str("milligram")),
     safetyNote |-> extractTextBlock(ls, "_mpif_synthesis_safety_note")]

ReagentFields ==
    <<"id", "name", "molarity", "molarityUnit", "amount", "amountUnit",
      "supplier", "purity", "casNumber", "smiles">>

VesselFields ==
    <<"id", "volume", "volumeUnit", "material", "type", "supplier", "purpose", "note">>

HardwareFields ==
    <<"id", "purpose", "generalName", "productName", "supplier", "note">>

StepFields == <<"id", "type", "atmosphere", "detail">>

parseSynthesisDetails(ls) ==
    [substrates |-> parseLoopData(ls, "substrate", ReagentFields),
     solvents |-> parseLoopData(ls, "solvent", ReagentFields),
     vessels |-> parseLoopData(ls, "vessel", VesselFields),
     hardware |-> parseLoopData(ls, "hardware", HardwareFields),
     steps |-> parseLoopData(ls, "procedure", StepFields),
     procedureFull |-> extractTextBlock(ls, "_mpif_procedure_full")]

\* ------------------------------------------------------------------------
\* parse: characterization
\* ------------------------------------------------------------------------

\* The two numbers of a PXRD or TGA data line, appended when neither is NaN
\* (lines 312-322, 351-361).
PushPair(acc, line, first, second) ==
    LET parts == Split(line, "\t")
        a == parseFloatStr(parts[1])
        b == parseFloatStr(parts[2])
    IN  IF Len(parts) >= 2 /\ ~isNaN(a) /\ ~isNaN(b)
        THEN Append(acc, [k \in {first, second} |-> IF k = first THEN a ELSE b])
        ELSE acc

\* The three numbers of an adsorption or desorption data line (lines 416-428).
PushTriple(acc, line) ==
    LET parts == Split(line, "\t")
    IN  IF Len(parts) >= 3
        THEN LET pressure == parseFloatStr(parts[1])
                 p0 == parseFloatStr(parts[2])
                 amount == parseFloatStr(parts[3])
             IN  IF ~isNaN(pressure) /\ ~isNaN(p0) /\ ~isNaN(amount)
                 THEN Append(acc, [pressure |-> pressure, p0 |-> p0, amount |-> amount])
                 ELSE acc
        ELSE acc

\* The PXRD loop (lines 299-327), from index i.
RECURSIVE PXRDLoop(_, _, _, _)
PXRDLoop(ls, i, inLoopData, pxrd) ==
    IF i > Len(ls) THEN pxrd
    ELSE LET line == ls[i]
         IN  IF line = ";" /\ inLoopData THEN pxrd
             ELSE IF Includes(line, "_mpif_pxrd_source")
                  THEN PXRDLoop(ls, i + 1, inLoopData,
                                [pxrd EXCEPT !.source = OptReplace(Part(line, 2))])
             ELSE IF Includes(line, "_mpif_pxrd_lambda")
                  THEN PXRDLoop(ls, i + 1, inLoopData,
                                [pxrd EXCEPT !.wavelength = parseFloat(Part(line, 2))])
             ELSE IF Includes(line, "_pxrd_2theta") \/ Includes(line, "_pxrd_intensity")
                  THEN PXRDLoop(ls, i + 1, TRUE, pxrd)
             ELSE IF inLoopData /\ Includes(line, "\t") /\ ~StartsWith(line, "_")
                  THEN PXRDLoop(ls, i + 1, inLoopData,
                                [pxrd EXCEPT !.data =
                                    PushPair(@, line, "twoTheta", "intensity")])
             ELSE IF StartsWith(line, "_mpif_") /\ inLoopData THEN pxrd
             ELSE PXRDLoop(ls, i + 1, inLoopData, pxrd)

\* characterization.pxrd (lines 289-332)
parsePXRD(ls) ==
    LET pxrdStartIndex == findLineIndex(ls, "_mpif_pxrd_data")
        pxrd == PXRDLoop(ls, pxrdStartIndex + 1, FALSE,
                         [source |-> Undefined, wavelength |-> Undefined, data |-> <<>>])
    IN  IF pxrdStartIndex # 0 /\ Len(pxrd.data) > 0 THEN pxrd ELSE Undefined

\* The TGA loop (lines 342-366), from index i.
RECURSIVE TGALoop(_, _, _, _)
TGALoop(ls, i, inLoopData, tga) ==
    IF i > Len(ls) THEN tga
    ELSE LET line == ls[i]
         IN  IF line = ";" /\ inLoopData THEN tga
             ELSE IF \/ Includes(line, "_tga_temperature_celcius")
                     \/ Includes(line, "_tga_weight_percent")
                  THEN TGALoop(ls, i + 1, TRUE, tga)
             ELSE IF inLoopData /\ Includes(line, "\t") /\ ~StartsWith(line, "_")
                  THEN TGALoop(ls, i + 1, inLoopData,
                               [tga EXCEPT !.data =
                                   PushPair(@, line, "temperature", "weightPercent")])
             ELSE IF StartsWith(line, "_mpif_") /\ inLoopData THEN tga
             ELSE TGALoop(ls, i + 1, inLoopData, tga)

\* characterization.tga (lines 334-371)
parseTGA(ls) ==
    LET tgaStartIndex == findLineIndex(ls, "_mpif_tga_data")
        tga == TGALoop(ls, tgaStartIndex + 1, FALSE, [data |-> <<>>])
    IN  IF tgaStartIndex # 0 /\ Len(tga.data) > 0 THEN tga ELSE Undefined

\* One step of the adsorption metadata loop (lines 383-404): the first key
\* the line includes decides the field it sets.
AdsorptionMeta(a, line) ==
    LET f == Part(line, 2)
    IN  IF Includes(line, "_exptl_temperature")
        THEN [a EXCEPT !.experimentalTemperature = parseFloat(f)]
        ELSE IF Includes(line, "_exptl_method")
        THEN [a EXCEPT !.experimentalMethod = OptReplace(f)]
        ELSE IF Includes(line, "_adsnt_sample_mass")
        THEN [a EXCEPT !.sampleMass = parseFloat(f)]
        ELSE IF Includes(line, "_adsnt_sample_id")
        THEN [a EXCEPT !.sampleId = OptReplace(f)]
        ELSE IF Includes(line, "_adsnt_material_id")
        THEN [a EXCEPT !.materialId = OptReplace(f)]
        ELSE IF Includes(line, "_adsnt_info")
        THEN [a EXCEPT !.sampleInfo = OptReplace(f)]
        ELSE IF Includes(line, "_units_temperature")
        THEN [a EXCEPT !.units.temperature = OptReplace(f)]
        ELSE IF Includes(line, "_units_pressure")
        THEN [a EXCEPT !.units.pressure = OptReplace(f)]
        ELSE IF Includes(line, "_units_mass")
        THEN [a EXCEPT !.units.mass = OptReplace(f)]
        ELSE IF Includes(line, "_units_loading")
        THEN [a EXCEPT !.units.loading = OptReplace(f)]
        ELSE a

\* The metadata loop over the lines before the adsorption table (lines 382-405).
RECURSIVE AdsorptionMetaLoop(_, _, _, _)
AdsorptionMetaLoop(ls, i, stop, a) ==
    IF i >= stop THEN a
    ELSE AdsorptionMetaLoop(ls, i + 1, stop, AdsorptionMeta(a, ls[i]))

\* The adsorption data loop (lines 410-433), from index i.
RECURSIVE AdsorptionLoop(_, _, _, _)
AdsorptionLoop(ls, i, inLoopData, acc) ==
    IF i > Len(ls) THEN acc
    ELSE LET line == ls[i]
         IN  IF Includes(line, "_adsorp_p0") \/ Includes(line, "_adsorp_amount")
             THEN AdsorptionLoop(ls, i + 1, TRUE, acc)
             ELSE IF inLoopData /\ Includes(line, "\t") /\ ~StartsWith(line, "_")
                  THEN AdsorptionLoop(ls, i + 1, inLoopData, PushTriple(acc, line))
             ELSE IF \/ StartsWith(line, "_desorp_")
                     \/ StartsWith(line, "#")
                     \/ line = ""
                  THEN acc
             ELSE AdsorptionLoop(ls, i + 1, inLoopData, acc)

EmptyAdsorption ==
    [data |-> <<>>,
     units |-> [temperature |-> Undefined, pressure |-> Undefined,
                mass |-> Undefined, loading |-> Undefined],
     experimentalTemperature |-> Undefined, experimentalMethod |-> Undefined,
     sampleMass |-> Undefined, sampleId |-> Undefined,
     materialId |-> Undefined, sampleInfo |-> Undefined]

\* characterization.adsorption (lines 373-438)
parseAdsorption(ls) ==
    LET adsorptionStartIndex == findLineIndex(ls, "_adsorp_pressure")
        meta == AdsorptionMetaLoop(ls, 1, adsorptionStartIndex, EmptyAdsorption)
        adsorption ==
            [meta EXCEPT !.data = AdsorptionLoop(ls, adsorptionStartIndex + 1, FALSE, <<>>)]
    IN  IF adsorptionStartIndex # 0 /\ Len(adsorption.data) > 0
        THEN adsorption ELSE Undefined

\* The desorption data loop (lines 448-471), from index i.
RECURSIVE DesorptionLoop(_, _, _, _)
DesorptionLoop(ls, i, inLoopData, acc) ==
    IF i > Len(ls) THEN acc
    ELSE LET line == ls[i]
         IN  IF Includes(line, "_desorp_p0") \/ Includes(line, "_desorp_amount")
             THEN DesorptionLoop(ls, i + 1, TRUE, acc)
             ELSE IF inLoopData /\ Includes(line, "\t") /\ ~StartsWith(line, "_")
                  THEN DesorptionLoop(ls, i + 1, inLoopData, PushTriple(acc, line))
             ELSE IF \/ (StartsWith(line, "_") /\ ~StartsWith(line, "_desorp_"))
                     \/ StartsWith(line, "#")
                  THEN acc
             ELSE DesorptionLoop(ls, i + 1, inLoopData, acc)

\* characterization.desorption (lines 440-476)
parseDesorption(ls) ==
    LET desorptionStartIndex == findLineIndex(ls, "_desorp_pressure")
        desorption ==
            [data |-> DesorptionLoop(ls, desorptionStartIndex + 1, FALSE, <<>>)]
    IN  IF desorptionStartIndex # 0 /\ Len(desorption.data) > 0
        THEN desorption ELSE Undefined

\* A property the code never sets reads as undefined, so the optional keys of
\* the characterization object are all present here, Undefined when unset.
parseCharacterization(ls) ==
    [pxrd |-> parsePXRD(ls),
     tga |-> parseTGA(ls),
     adsorption |-> parseAdsorption(ls),
     desorption |-> parseDesorption(ls),
     aif |-> Or(extractTextBlock(ls, "_mpif_aif"), Undefined)]

\* this.lines = content.split('\n').map(line => line.trim())
SplitLines(c) ==
    LET raw == Split(c, "\n")
    IN  Tuple([i \in 1..Len(raw) |-> Trim(raw[i])])

\* The document parse builds from this.lines (lines 25-34).
parseLines(ls) ==
    [metadata |-> parseMetadata(ls),
     authorDetails |-> parseAuthorDetails(ls),
     productInfo |-> parseProductInfo(ls),
     synthesisGeneral |-> parseSynthesisGeneral(ls),
     synthesisDetails |-> parseSynthesisDetails(ls),
     characterization |-> parseCharacterization(ls)]

\* ------------------------------------------------------------------------
\* stringify
\* ------------------------------------------------------------------------

\* `${v || alt}`
OrElse(v, alt) == ToString(Or(v, Str(alt)))

\* Lines 43-54: the data block name and the metadata.
stringifyMetadata(m) ==
    "data_" \o ToString(m.dataName) \o "\n"
    \o "_mpif_audit_creation_date\t" \o ToString(m.creationDate) \o "\n"
    \o "_mpif_audit_generator_version\t" \o ToString(m.generatorVersion) \o "\n"
    \o (IF Truthy(m.publicationDOI)
        THEN "_mpif_audit_publication_doi\t'" \o ToString(m.publicationDOI) \o "'\n"
        ELSE "_mpif_audit_publication_doi\t''\n")
    \o "_mpif_audit_procedure_status\t'" \o ToString(m.procedureStatus) \o "'\n\n"

\* Lines 56-62
stringifyAuthorDetails(a) ==
    "#Section 1: Author details\n"
    \o "_mpif_audit_contact_author_name\t'" \o ToString(a.name) \o "'\n"
    \o "_mpif_audit_contact_author_email\t" \o ToString(a.email) \o "\n"
    \o "_mpif_audit_contact_author_id_orcid\t" \o ToString(a.orcid) \o "\n"
    \o "_mpif_audit_contact_author_address\t'" \o OrElse(a.address, "") \o "'\n"
    \o "_mpif_audit_contact_author_phone\t" \o OrElse(a.phone, "?") \o "\n\n"

\* Lines 64-76
stringifyProductInfo(p) ==
    "#Section 2: Product General Information\n"
    \o "_mpif_product_type\t'" \o ToString(p.type) \o "'\n"
    \o "_mpif_product_cas\t" \o OrElse(p.casNumber, "?") \o "\n"
    \o "_mpif_product_ccdc\t'" \o OrElse(p.ccdcNumber, "") \o "'\n"
    \o "_mpif_product_name_common\t'" \o ToString(p.commonName) \o "'\n"
    \o "_mpif_product_name_systematic\t'" \o OrElse(p.systematicName, "") \o "'\n"
    \o "_mpif_product_formula\t'" \o OrElse(p.formula, "") \o "'\n"
    \o "_mpif_product_formula_weight\t" \o OrElse(p.formulaWeight, "") \o "\n"
    \o "_mpif_product_state\t'" \o ToString(p.state) \o "'\n"
    \o "_mpif_product_color\t'" \o ToString(p.color) \o "'\n"
    \o "_mpif_product_handling_atmosphere\t'" \o ToString(p.handlingAtmosphere) \o "'\n"
    \o "_mpif_product_handling_note\n;\n" \o OrElse(p.handlingNote, "") \o "\n;\n\n"

\* Lines 78-97
stringifySynthesisGeneral(g) ==
    "#Section 3: Synthesis General Information\n"
    \o "_mpif_synthesis_performed_date\t" \o ToString(g.performedDate) \o "\n"
    \o "_mpif_synthesis_lab_temperature_C\t" \o ToString(g.labTemperature) \o "\n"
    \o "_mpif_synthesis_lab_humidity_percent\t" \o ToString(g.labHumidity) \o "\n"
    \o "_mpif_synthesis_type\t'" \o ToString(g.reactionType) \o "'\n"
    \o "_mpif_synthesis_react_temperature_C\t" \o ToString(g.reactionTemperature) \o "\n"
    \o "_mpif_synthesis_react_temperature_controller\t'"
    \o ToString(g.temperatureController) \o "'\n"
    \o "_mpif_synthesis_react_time\t" \o ToString(g.reactionTime) \o "\n"
    \o "_mpif_synthesis_react_time_unit\t'" \o ToString(g.reactionTimeUnit) \o "'\n"
    \o "_mpif_synthesis_react_atmosphere\t'" \o ToString(g.reactionAtmosphere) \o "'\n"
    \o "_mpif_synthesis_react_container\t'" \o ToString(g.reactionContainer) \o "'\n"
    \o "_mpif_synthesis_react_note\n;\n" \o OrElse(g.reactionNote, "") \o "\n;\n"
    \o "_mpif_synthesis_product_amount\t" \o ToString(g.productAmount) \o "\n"
    \o "_mpif_synthesis_product_amount_unit\t'" \o ToString(g.productAmountUnit) \o "'\n"
    \o (IF Truthy(g.productYield)
        THEN "_mpif_synthesis_product_yield_percent\t" \o ToString(g.productYield) \o "\n"
        ELSE "")
    \o "_mpif_synthesis_scale\t'" \o ToString(g.scale) \o "'\n"
    \o "_mpif_synthesis_safety_note\n;\n" \o OrElse(g.safetyNote, "") \o "\n;\n\n"

\* items.forEach(item => { result += row }): the rows, one after the other
RECURSIVE ConcatAll(_)
ConcatAll(strs) ==
    IF Len(strs) = 0 THEN "" ELSE Head(strs) \o ConcatAll(Tail(strs))

\* Lines 109 and 121: one substrate or solvent data line.
ReagentRow(r) ==
    ToString(r.id) \o "\t" \o ToString(r.name)
    \o "\t" \o OrElse(r.molarity, "") \o "\t" \o OrElse(r.molarityUnit, "")
    \o "\t" \o ToString(r.amount) \o "\t" \o ToString(r.amountUnit)
    \o "\t" \o OrElse(r.supplier, "") \o "\t" \o OrElse(r.purity, "")
    \o "\t" \o OrElse(r.casNumber, "") \o "\t" \o OrElse(r.smiles, "?") \o "\n"

\* Line 133
VesselRow(v) ==
    ToString(v.id) \o "\t" \o ToString(v.volume) \o "\t" \o ToString(v.volumeUnit)
    \o "\t" \o ToString(v.material) \o "\t" \o ToString(v.type)
    \o "\t" \o OrElse(v.supplier, "-") \o "\t" \o ToString(v.purpose)
    \o "\t" \o OrElse(v.note, "-") \o "\n"

\* Line 145
HardwareRow(h) ==
    ToString(h.id) \o "\t" \o ToString(h.purpose) \o "\t" \o ToString(h.generalName)
    \o "\t" \o OrElse(h.productName, "") \o "\t" \o OrElse(h.supplier, "")
    \o "\t" \o OrElse(h.note, "-") \o "\n"

\* Line 157
StepRow(st) ==
    ToString(st.id) \o "\t" \o ToString(st.type) \o "\t" \o ToString(st.atmosphere)
    \o "\t" \o ToString(st.detail) \o "\n"

\* The _mpif_<type>_number line carrying the count the last parsed file
\* declared for the loop, 0 when it declared none.
NumberLine_Declared(type, items) ==
    LET k == findLineIndex(lines, "_mpif_" \o type \o "_number")
    IN  "_mpif_" \o type \o "_number\t"
        \o (IF k = 0 THEN "0" ELSE ToString(Part(lines[k], 2))) \o "\n"

\* The _mpif_<type>_number line of a loop: the collection's length (lines 104,
\* 116, 128, 140, 152).
NumberLine(type, items) ==
    "_mpif_" \o type \o "_number\t" \o NatToString(Len(items)) \o "\n"

\* The field-name lines of a reagent loop (lines 106, 118).
ReagentHeader(type) ==
    "_mpif_" \o type \o "_id\n_mpif_" \o type \o "_name\n_mpif_" \o type
    \o "_molarity\n_mpif_" \o type \o "_molarity_unit\n_mpif_" \o type
    \o "_amount\n_mpif_" \o type \o "_amount_unit\n_mpif_" \o type
    \o "_supplier\n_mpif_" \o type \o "_purity_percent\n_mpif_" \o type
    \o "_cas\n_mpif_" \o type \o "_smiles\n"

VesselHeader ==
    "_mpif_vessel_id\n_mpif_vessel_volume\n_mpif_vessel_volume_unit\n"
    \o "_mpif_vessel_material\n_mpif_vessel_type\n_mpif_vessel_supplier\n"
    \o "_mpif_vessel_purpose\n_mpif_vessel_note\n"

HardwareHeader ==
    "_mpif_hardware_id\n_mpif_hardware_purpose\n_mpif_hardware_general_name\n"
    \o "_mpif_hardware_product_name\n_mpif_hardware_supplier\n_mpif_hardware_note\n"

StepHeader ==
    "_mpif_procedure_id\n_mpif_procedure_type\n_mpif_procedure_atmosphere\n"
    \o "_mpif_procedure_detail\n"

\* One record loop: nothing when the collection is empty (lines 103-112).
stringifyLoop(type, items, header, rows) ==
    IF Len(items) > 0
    THEN NumberLine(type, items) \o "loop_\n" \o header \o ConcatAll(rows) \o "\n"
    ELSE ""

\* Lines 99-164
stringifySynthesisDetails(d) ==
    "#Section 4: Synthesis Procedure Details\n"
    \o stringifyLoop("substrate", d.substrates, ReagentHeader("substrate"),
                     [i \in 1..Len(d.substrates) |-> ReagentRow(d.substrates[i])])
    \o stringifyLoop("solvent", d.solvents, ReagentHeader("solvent"),
                     [i \in 1..Len(d.solvents) |-> ReagentRow(d.solvents[i])])
    \o stringifyLoop("vessel", d.vessels, VesselHeader,
                     [i \in 1..Len(d.vessels) |-> VesselRow(d.vessels[i])])
    \o stringifyLoop("hardware", d.hardware, HardwareHeader,
                     [i \in 1..Len(d.hardware) |-> HardwareRow(d.hardware[i])])
    \o stringifyLoop("procedure", d.steps, StepHeader,
                     [i \in 1..Len(d.steps) |-> StepRow(d.steps[i])])
    \o (IF Truthy(d.procedureFull)
        THEN "_mpif_procedure_full\n;\n" \o ToString(d.procedureFull) \o "\n;\n\n"
        ELSE "")

\* A data line whose two numbers are separated by a space.
PXRDRow_SpaceSeparated(point) ==
    ToString(point.twoTheta) \o " " \o ToString(point.intensity) \o "\n"

PXRDRow(point) == ToString(point.twoTheta) \o "\t" \o ToString(point.intensity) \o "\n"

TGARow(point) ==
    ToString(point.temperature) \o "\t" \o ToString(point.weightPercent) \o "\n"

\* An object is truthy; the optional series are objects or undefined.
Present(obj) == obj # Undefined

\* result += part, for each part in turn: the text built from the parts, or
\* the exception when evaluating a part throws.
Appended(parts) ==
    IF \E i \in 1..Len(parts) : parts[i] = TypeError THEN TypeError
    ELSE Str(ConcatAll([i \in 1..Len(parts) |-> parts[i].v]))

\* Lines 171-180: the PXRD block of a series that is there.
PXRDText(pxrd) ==
    "_mpif_pxrd_data\n;\n"
    \o "_mpif_pxrd_source\t'" \o ToString(pxrd.source) \o "'\n"
    \o (IF Truthy(pxrd.wavelength)
        THEN "_mpif_pxrd_lambda\t" \o ToString(pxrd.wavelength) \o "\n"
        ELSE "")
    \o "loop_\n_pxrd_2theta\n_pxrd_intensity\n"
    \o ConcatAll([i \in 1..Len(pxrd.data) |-> PXRDRow(pxrd.data[i])])
    \o ";\n\n"

\* The PXRD block written without asking first whether the series is there:
\* reading a property of undefined throws.
stringifyPXRD_Unguarded(pxrd) ==
    IF Present(pxrd) THEN Str(PXRDText(pxrd)) ELSE TypeError

\* Lines 170-181
stringifyPXRD(pxrd) ==
    IF Present(pxrd) THEN Str(PXRDText(pxrd)) ELSE Str("")

\* Lines 183-189: no line break follows the second field name.
stringifyTGA(tga) ==
    IF Present(tga)
    THEN Str("_mpif_tga_data\n;\nloop_\n_tga_temperature_celcius\n_tga_weight_percent"
             \o ConcatAll([i \in 1..Len(tga.data) |-> TGARow(tga.data[i])])
             \o ";\n\n")
    ELSE Str("")

\* Lines 191-193
stringifyAIF(aif) ==
    IF Truthy(aif) THEN Str("_mpif_aif\n;\n" \o ToString(aif) \o "\n;\n") ELSE Str("")

\* The characterization with the TGA block written before the PXRD block.
stringifyCharacterization_TGAFirst(c) ==
    IF Present(c.pxrd) \/ Present(c.tga) \/ Truthy(c.aif)
    THEN Appended(<<Str("#Characterization Information\n\n"),
                    stringifyTGA(c.tga),
                    stringifyPXRD(c.pxrd),
                    stringifyAIF(c.aif)>>)
    ELSE Str("")

\* Lines 166-194
stringifyCharacterization(c) ==
    IF Present(c.pxrd) \/ Present(c.tga) \/ Truthy(c.aif)
    THEN Appended(<<Str("#Characterization Information\n\n"),
                    stringifyPXRD(c.pxrd),
                    stringifyTGA(c.tga),
                    stringifyAIF(c.aif)>>)
    ELSE Str("")

\* stringify(data): the text, or the exception the call ends with
stringify(d) ==
    Appended(<<Str(stringifyMetadata(d.metadata)),
               Str(stringifyAuthorDetails(d.authorDetails)),
               Str(stringifyProductInfo(d.productInfo)),
               Str(stringifySynthesisGeneral(d.synthesisGeneral)),
               Str(stringifySynthesisDetails(d.synthesisDetails)),
               stringifyCharacterization(d.characterization)>>)

\* ------------------------------------------------------------------------
\* The operations
\* ------------------------------------------------------------------------

NoData == Undefined

NoError == Undefined

\* No timeout is pending.
\* A timeout that is not pending, and one that fires after ms milliseconds.
NoTimer == Undefined

Timeout(ms) == [t |-> "timeout", left |-> ms]

\* The state the store is created with (mpifStore.ts lines 226-245), no form
\* open and no timeout pending.
StoreCreated ==
    /\ dashboard = [currentSection |-> "metadata", isEditing |-> FALSE,
                    hasUnsavedChanges |-> FALSE, columnLayout |-> "single"]
    /\ fileState = [fileName |-> Undefined, lastSaved |-> Undefined,
                    isLoading |-> FALSE, error |-> Undefined]
    /\ validation = [isValid |-> TRUE, errors |-> <<>>]
    /\ form = [values |-> Undefined, isDirty |-> FALSE]
    /\ timers = [save |-> NoTimer, export |-> NoTimer]

\* An exception raised while a section was built leaves its mark in a field.
SectionThrew(section) == \E f \in DOMAIN section : section[f] = TypeError

\* parse throws when evaluating any of its sections throws.
Threw(doc) ==
    \/ SectionThrew(doc.metadata)
    \/ SectionThrew(doc.authorDetails)
    \/ SectionThrew(doc.productInfo)
    \/ SectionThrew(doc.synthesisGeneral)
    \/ (Present(doc.characterization.pxrd)
        /\ doc.characterization.pxrd.source = TypeError)
    \/ (Present(doc.characterization.adsorption)
        /\ \/ SectionThrew(doc.characterization.adsorption.units)
           \/ \E f \in {"experimentalMethod", "sampleId", "materialId", "sampleInfo"} :
                 doc.characterization.adsorption[f] = TypeError)

\* parse(content) as it would be if the parser added the lines of the text to
\* the lines it holds from the call before.
Parse_KeepsLines ==
    /\ lines' = lines \o SplitLines(content)
    /\ \E doc \in {parseLines(lines')} :
          IF Threw(doc)
          THEN thrown' = TypeError /\ data' = data
          ELSE thrown' = NoError /\ data' = doc
    /\ op' = "parse"
    /\ UNCHANGED <<content, text, ui>>

\* parse(content): the lines are stored in the parser, then the document is
\* built from them; a call that throws returns no document.
Parse ==
    /\ lines' = SplitLines(content)
    /\ \E doc \in {parseLines(lines')} :
          IF Threw(doc)
          THEN thrown' = TypeError /\ data' = data
          ELSE thrown' = NoError /\ data' = doc
    /\ op' = "parse"
    /\ UNCHANGED <<content, text, ui>>

\* stringify(data) for the document at hand; a call that throws returns no text.
Stringify ==
    /\ data # NoData
    /\ \E result \in {stringify(data)} :
          IF result = TypeError
          THEN thrown' = TypeError /\ text' = text
          ELSE thrown' = NoError /\ text' = result.v
    /\ op' = "stringify"
    /\ UNCHANGED <<lines, content, data, ui>>

\* ------------------------------------------------------------------------
\* Texts to decode: a header, scalar lines, one optional scalar written in
\* one of three ways, a text block and one local anomaly
\* ------------------------------------------------------------------------

HeaderTexts ==
    {"data_Test_20240101_Author\n", "", "# data_old\n", "data_\n"}

RequiredScalarText ==
    "_mpif_audit_creation_date\t2024-01-01\n"
    \o "_mpif_audit_contact_author_name\t'A. Author'\n"
    \o "_mpif_audit_contact_author_email\ta@b.org\n"

\* The optional scalars and the key each is read from.
OptionalKey ==
    [publicationDOI |-> "_mpif_audit_publication_doi",
     address |-> "_mpif_audit_contact_author_address",
     phone |-> "_mpif_audit_contact_author_phone",
     casNumber |-> "_mpif_product_cas",
     ccdcNumber |-> "_mpif_product_ccdc",
     systematicName |-> "_mpif_product_name_systematic",
     formula |-> "_mpif_product_formula"]

OptionalFields == DOMAIN OptionalKey

OptionalTexts ==
    {""} \cup {OptionalKey[f] \o "\t" \o v \o "\n" :
                f \in OptionalFields, v \in {"?", "''", "'x y'"}}

BlockTexts ==
    {"", "_mpif_product_handling_note\n;\nLine one\nLine two\n;\n"}

AnomalyTexts ==
    {"",
     "_mpif_synthesis_lab_temperature_C\tabc\n",
     "_mpif_product_state\t'plasma'\n",
     "_mpif_synthesis_safety_note\n;\nnever closed\n",
     "_mpif_procedure_number\t2\nloop_\n" \o StepHeader \o "P1\tPrep\nP2\tPrep\tAir\tstir\n",
     "_mpif_procedure_number\tmany\nloop_\n" \o StepHeader \o "P1\tPrep\tAir\tstir\n"}

ParseTexts ==
    {h \o RequiredScalarText \o o \o b \o a :
        h \in HeaderTexts, o \in OptionalTexts, b \in BlockTexts, a \in AnomalyTexts}

InitParse ==
    /\ lines = <<>>
    /\ content \in ParseTexts
    /\ data = NoData
    /\ text = ""
    /\ thrown = NoError
    /\ op = "init"
    /\ StoreCreated

SpecParse == InitParse /\ [][Parse]_vars

\* ------------------------------------------------------------------------
\* Texts with one procedure-steps loop: a declared count and data lines of
\* several kinds after the field-name preamble
\* ------------------------------------------------------------------------

MaxCount == 3

MaxDataLines == 3

\* A well-formed line, a line with too few columns, a blank line, a comment,
\* an _mpif_ key line, and a line that starts with _ but not with _mpif_.
LoopLineKinds ==
    {"P1\tPrep\tAir\tmix", "P2\tx\ty", "", "#c", "_mpif_procedure_full",
     "_x\ta\tb\tc"}

SeqsUpTo(S, n) == UNION {[1..k -> S] : k \in 0..n}

RECURSIVE JoinLines(_)
JoinLines(ls) ==
    IF Len(ls) = 0 THEN "" ELSE Head(ls) \o "\n" \o JoinLines(Tail(ls))

LoopText(c, ds) ==
    "data_Test_20240101_Author\n"
    \o "_mpif_procedure_number\t" \o NatToString(c) \o "\nloop_\n"
    \o StepHeader \o JoinLines(ds) \o "_mpif_procedure_full\n;\nStir.\n;"

LoopTexts ==
    {LoopText(c, ds) : c \in 0..MaxCount, ds \in SeqsUpTo(LoopLineKinds, MaxDataLines)}

InitLoop ==
    /\ lines = <<>>
    /\ content \in LoopTexts
    /\ data = NoData
    /\ text = ""
    /\ thrown = NoError
    /\ op = "init"
    /\ StoreCreated

SpecLoop == InitLoop /\ [][Parse]_vars

\* ------------------------------------------------------------------------
\* Documents to encode: a sample with every field set, the same sample with
\* optional scalars, record collections and series taken away, and the
\* sample with PXRD series of several lengths and sources
\* ------------------------------------------------------------------------

MaxPoints == 3

Reagent(id, name) ==
    [id |-> Str(id), name |-> Str(name), molarity |-> Undefined,
     molarityUnit |-> Undefined, amount |-> Num(10, 0), amountUnit |-> Str("mg"),
     supplier |-> Str("Acme"), purity |-> Undefined, casNumber |-> Undefined,
     smiles |-> Undefined]

SampleVessel ==
    [id |-> Str("V1"), volume |-> Num(20, 0), volumeUnit |-> Str("mL"),
     material |-> Str("Glass"), type |-> Str("Vial"), supplier |-> Undefined,
     purpose |-> Str("Reaction"), note |-> Undefined]

SampleHardware ==
    [id |-> Str("H1"), purpose |-> Str("Heat"), generalName |-> Str("Oven"),
     productName |-> Undefined, supplier |-> Undefined, note |-> Undefined]

SampleStep ==
    [id |-> Str("P1"), type |-> Str("Preparation"), atmosphere |-> Str("Air"),
     detail |-> Str("mix")]

\* The i-th point of the sample series: (5.0, 100), (5.1, 150), (5.2, 120), ...
PXRDPoint(i) ==
    [twoTheta |-> Normalise(49 + i, 1),
     intensity |-> Num(IF i = 2 THEN 150 ELSE 90 + 10 * i, 0)]

PXRDPoints(n) == [i \in 1..n |-> PXRDPoint(i)]

\* The values of PXRDData.source.
PXRDSources == {"Cu", "Cr", "Fe", "Co", "Mo", "Ag", "synchrotron", "other"}

SamplePXRD ==
    [source |-> Str("Cu"), wavelength |-> Num(154, 2), data |-> PXRDPoints(3)]

SampleTGA ==
    [data |-> <<[temperature |-> Num(25, 0), weightPercent |-> Num(100, 0)],
                [temperature |-> Num(300, 0), weightPercent |-> Num(805, 1)]>>]

SampleDocument ==
    [metadata |->
        [dataName |-> Str("Test_20240101_Author"),
         creationDate |-> Str("2024-01-01"),
         generatorVersion |-> Str("1.0"),
         publicationDOI |-> Str("10.1000/x"),
         procedureStatus |-> Str("success")],
     authorDetails |->
        [name |-> Str("A. Author"), email |-> Str("a@b.org"),
         orcid |-> Str("0000-0002-1825-0097"), address |-> Str("1 Main St"),
         phone |-> Str("555-0100")],
     productInfo |->
        [type |-> Str("porous framework material"), casNumber |-> Str("50-00-0"),
         ccdcNumber |-> Str("1234567"), commonName |-> Str("WaaF-1"),
         systematicName |-> Str("zinc framework"), formula |-> Str("C30 N2 Rh2"),
         formulaWeight |-> Num(1005, 1), state |-> Str("solid"),
         color |-> Str("#ffffff"), handlingAtmosphere |-> Str("air"),
         handlingNote |-> Str("Line one\nLine two")],
     synthesisGeneral |->
        [performedDate |-> Str("2024-01-01"), labTemperature |-> Num(22, 0),
         labHumidity |-> Num(40, 0), reactionType |-> Str("mix"),
         reactionTemperature |-> Num(100, 0),
         temperatureController |-> Str("oven"), reactionTime |-> Num(16, 0),
         reactionTimeUnit |-> Str("h"), reactionAtmosphere |-> Str("air"),
         reactionContainer |-> Str("vial"), reactionNote |-> Str("Stirred."),
         productAmount |-> Num(10, 0), productAmountUnit |-> Str("mg"),
         productYield |-> Num(855, 1), scale |-> Str("milligram"),
         safetyNote |-> Str("Wear gloves.")],
     synthesisDetails |->
        [substrates |-> <<Reagent("R1", "metal_salt"), Reagent("R2", "linker")>>,
         solvents |-> <<Reagent("S1", "water")>>,
         vessels |-> <<SampleVessel>>,
         hardware |-> <<SampleHardware>>,
         steps |-> <<SampleStep>>,
         procedureFull |-> Str("Mix.\nHeat.")],
     characterization |->
        [pxrd |-> SamplePXRD, tga |-> SampleTGA, adsorption |-> Undefined,
         desorption |-> Undefined, aif |-> Str("data_raw\n_exptl_adsorptive\tN2")]]

Collections == {"substrates", "solvents", "vessels", "hardware", "steps"}

\* The optional scalars and text fields, by section.
OptionalOf ==
    [metadata |-> {"publicationDOI"},
     authorDetails |-> {"address", "phone"},
     productInfo |-> {"casNumber", "ccdcNumber", "systematicName", "formula",
                      "formulaWeight", "handlingNote"},
     synthesisGeneral |-> {"reactionNote", "productYield", "safetyNote"},
     synthesisDetails |-> {"procedureFull"}]

\* The characterization series a document may have.
Series == {"pxrd", "tga", "aif"}

\* Document d without the optional fields of section s.
WithoutOptional(d, s) ==
    [d EXCEPT ![s] = [f \in DOMAIN @ |-> IF f \in OptionalOf[s] THEN Undefined ELSE @[f]]]

\* Document d with the collections in C emptied.
WithoutCollections(d, C) ==
    [d EXCEPT !.synthesisDetails =
        [f \in DOMAIN @ |-> IF f \in C THEN <<>> ELSE @[f]]]

\* Document d without the series in S.
WithoutSeries(d, S) ==
    [d EXCEPT !.characterization =
        [f \in DOMAIN @ |-> IF f \in S THEN Undefined ELSE @[f]]]

RECURSIVE WithoutOptionals(_, _)
WithoutOptionals(d, S) ==
    IF S = {} THEN d
    ELSE LET s == CHOOSE x \in S : TRUE
         IN  WithoutOptionals(WithoutOptional(d, s), S \ {s})

\* The sample with a PXRD series of n points and source s, no wavelength.
WithPXRD(d, s, n) ==
    [d EXCEPT !.characterization.pxrd =
        [source |-> Str(s), wavelength |-> Undefined, data |-> PXRDPoints(n)]]

\* The keys of the multi-line text fields.
BlockKeys ==
    {"_mpif_product_handling_note", "_mpif_synthesis_react_note",
     "_mpif_synthesis_safety_note", "_mpif_procedure_full", "_mpif_aif"}

\* An AIF text with a text block of its own, and the sample with that text
\* in the multi-line field of key k.
EmbeddedText ==
    "data_raw\n_exptl_operator\n;\nA. Operator\n;\n_exptl_adsorptive\tN2"

WithBlock(d, k, t) ==
    CASE k = "_mpif_product_handling_note" -> [d EXCEPT !.productInfo.handlingNote = Str(t)]
      [] k = "_mpif_synthesis_react_note" -> [d EXCEPT !.synthesisGeneral.reactionNote = Str(t)]
      [] k = "_mpif_synthesis_safety_note" -> [d EXCEPT !.synthesisGeneral.safetyNote = Str(t)]
      [] k = "_mpif_procedure_full" -> [d EXCEPT !.synthesisDetails.procedureFull = Str(t)]
      [] k = "_mpif_aif" -> [d EXCEPT !.characterization.aif = Str(t)]

\* The sections whose optional fields are taken away together.
OptionalGroups ==
    {{"metadata", "authorDetails"}, {"productInfo"},
     {"synthesisGeneral", "synthesisDetails"}}

EncodeDocuments ==
    {WithoutSeries(WithoutCollections(WithoutOptionals(SampleDocument, UNION G), C), S) :
        G \in SUBSET OptionalGroups, C \in SUBSET Collections,
        S \in SUBSET Series}
    \cup {WithPXRD(SampleDocument, s, n) : s \in PXRDSources, n \in 1..MaxPoints}
    \cup {WithBlock(SampleDocument, k, EmbeddedText) : k \in BlockKeys}

InitEncode ==
    /\ lines = <<>>
    /\ content = ""
    /\ data \in EncodeDocuments
    /\ text = ""
    /\ thrown = NoError
    /\ op = "init"
    /\ StoreCreated

SpecEncode == InitEncode /\ [][Stringify]_vars

\* ------------------------------------------------------------------------
\* The life of a document: a file is parsed, records are added to and removed
\* from the five collections in the synthesis-details form, and the document
\* is written out again
\* ------------------------------------------------------------------------

MaxRecords == 3

\* The text block `Line one`, `Line two` under key k.
BlockText(k) == k \o "\n;\nLine one\nLine two\n;\n"

\* A file written earlier from a document with two substrates, and a file
\* with the required scalars and a two-line text block under every key.
SeedTexts ==
    {stringify(WithoutCollections(SampleDocument, Collections \ {"substrates"})).v,
     "data_Test_20240101_Author\n" \o RequiredScalarText
        \o BlockText("_mpif_product_handling_note")
        \o BlockText("_mpif_synthesis_react_note")
        \o BlockText("_mpif_synthesis_safety_note")
        \o BlockText("_mpif_procedure_full")
        \o BlockText("_mpif_aif")}

\* Date.now().toString() at the time a record is added.
Now == "1700000000000"

\* The record the form appends to collection c of details d.
NewRecord(c, d) ==
    CASE c \in {"substrates", "solvents"} ->
            [id |-> Str(Now), name |-> Str(""), molarity |-> Undefined,
             molarityUnit |-> Undefined, amount |-> Undefined,
             amountUnit |-> Str(""), supplier |-> Undefined,
             purity |-> Undefined, casNumber |-> Undefined, smiles |-> Undefined]
      [] c = "vessels" ->
            [id |-> Str("V" \o NatToString(Len(d.vessels) + 1)),
             volume |-> Undefined, volumeUnit |-> Str(""), material |-> Str(""),
             type |-> Str(""), supplier |-> Undefined, purpose |-> Str(""),
             note |-> Undefined]
      [] c = "hardware" ->
            [id |-> Str("H" \o NatToString(Len(d.hardware) + 1)),
             purpose |-> Str(""), generalName |-> Str(""),
             productName |-> Str(""), supplier |-> Str(""), note |-> Str("")]
      [] c = "steps" ->
            [id |-> Str(Now), type |-> Str(""), atmosphere |-> Str(""),
             detail |-> Str("")]

RECURSIVE Sum(_, _)
Sum(f, S) ==
    IF S = {} THEN 0
    ELSE LET x == CHOOSE y \in S : TRUE IN f[x] + Sum(f, S \ {x})

TotalRecords(d) == Sum([c \in Collections |-> Len(d[c])], Collections)

\* items without the item at index
RemoveAt(items, index) ==
    SubSeq(items, 1, index - 1) \o SubSeq(items, index + 1, Len(items))

\* append(record) on collection c, saved to the document
AppendRecord(c) ==
    /\ data # NoData
    /\ TotalRecords(data.synthesisDetails) < MaxRecords
    /\ data' = [data EXCEPT !.synthesisDetails[c] =
                    Append(@, NewRecord(c, data.synthesisDetails))]
    /\ text' = ""
    /\ thrown' = NoError
    /\ op' = "append"
    /\ UNCHANGED <<lines, content, ui>>

\* remove(index) on collection c, saved to the document
RemoveRecord(c, index) ==
    /\ data # NoData
    /\ index \in 1..Len(data.synthesisDetails[c])
    /\ data' = [data EXCEPT !.synthesisDetails[c] = RemoveAt(@, index)]
    /\ text' = ""
    /\ thrown' = NoError
    /\ op' = "remove"
    /\ UNCHANGED <<lines, content, ui>>

\* The file is loaded once: loading it again gives the document its first
\* load gave, a state already reached.
Load == data = NoData /\ Parse

Init ==
    /\ lines = <<>>
    /\ content \in SeedTexts
    /\ data = NoData
    /\ text = ""
    /\ thrown = NoError
    /\ op = "init"
    /\ StoreCreated

Next ==
    \/ Load
    \/ Stringify
    \/ \E c \in Collections : AppendRecord(c)
    \/ \E c \in Collections : \E index \in 1..MaxRecords : RemoveRecord(c, index)

Spec == Init /\ [][Next]_vars

\* ------------------------------------------------------------------------
\* One parser instance used for call after call: a caller hands it a text to
\* decode or asks it to encode the document decoded last
\* ------------------------------------------------------------------------

\* The example file of the README.
ReadmeText ==
    "data_WaaF-1_20250311_Shun-Tokuda\n"
    \o "_mpif_audit_creation_date\t2025-03-11\n"
    \o "_mpif_audit_generator_version\t1.0.0\n"
    \o "_mpif_audit_procedure_status\t'success'\n"
    \o "\n"
    \o "#Section 1: Author details\n"
    \o "_mpif_audit_contact_author_name\t'Shun Tokuda'\n"
    \o "_mpif_audit_contact_author_email\ts.tokuda@fkf.mpg.de\n"
    \o "_mpif_audit_contact_author_id_orcid\t0000-0002-4515-3073\n"
    \o "\n"
    \o "#Section 2: Product General Information\n"
    \o "_mpif_product_type\t'porous framework material'\n"
    \o "_mpif_product_name_common\t'WaaF-1'\n"
    \o "_mpif_product_formula\t'C30 N2 Rh2'\n"
    \o "_mpif_product_state\t'solid'\n"
    \o "\n"
    \o "#Section 3: Synthesis General Information\n"
    \o "_mpif_synthesis_type\t'mix'\n"
    \o "_mpif_synthesis_react_temperature_C\t100\n"
    \o "_mpif_synthesis_react_time\t16\n"
    \o "_mpif_synthesis_react_time_unit\t'h'\n"
    \o "\n"
    \o "#Section 4: Synthesis Procedure Details\n"
    \o "_mpif_substrate_number\t2\n"
    \o "loop_\n"
    \o "_mpif_substrate_id\n"
    \o "_mpif_substrate_name\n"
    \o "_mpif_substrate_amount\n"
    \o "_mpif_substrate_amount_unit\n"
    \o "R1\tmetal_salt\t10\tmg\n"
    \o "R2\tligand\t33\tmL\n"

\* A text whose creation date follows its key after a space, and a text
\* whose quoted author name has an apostrophe in it.
SpacedText ==
    "data_Test_20240101_Author\n"
    \o "_mpif_audit_creation_date 2024-01-01\n"
    \o "_mpif_audit_contact_author_name\t'A. Author'\n"

ApostropheText ==
    "data_Test_20240101_Author\n"
    \o "_mpif_audit_creation_date\t2024-01-01\n"
    \o "_mpif_audit_contact_author_name\t'P. O'Brien'\n"

\* A text with the formula weight, the reaction time unit and the product
\* amount unit, and without the formula, the reaction time and the product
\* amount.
LongerKeysText ==
    "data_Test_20240101_Author\n"
    \o "_mpif_product_formula_weight\t123.4\n"
    \o "_mpif_synthesis_react_time_unit\t'h'\n"
    \o "_mpif_synthesis_product_amount_unit\t'mg'\n"

\* The texts a caller may hand to parse.
CallTexts ==
    SeedTexts
    \cup {ReadmeText,
          "data_Test_20240101_Author\n" \o RequiredScalarText,
          RequiredScalarText \o BlockText("_mpif_product_handling_note"),
          LoopText(2, <<"P1\tPrep\tAir\tmix", "P2\tPrep\tAir\tstir">>),
          SpacedText, ApostropheText, LongerKeysText}

\* The caller picks the text of its next parse call.
Open(t) ==
    /\ content # t
    /\ content' = t
    /\ op' = "open"
    /\ UNCHANGED <<lines, data, text, thrown, ui>>

InitCalls ==
    /\ lines = <<>>
    /\ content \in CallTexts
    /\ data = NoData
    /\ text = ""
    /\ thrown = NoError
    /\ op = "init"
    /\ StoreCreated

NextCalls ==
    \/ Parse
    \/ Stringify
    \/ \E t \in CallTexts : Open(t)

SpecCalls == InitCalls /\ [][NextCalls]_vars

\* ------------------------------------------------------------------------
\* Texts with the handling-note key followed by lines of several kinds and
\* then by the reaction note, a well-formed text block
\* ------------------------------------------------------------------------

MaxBlockLines == 4

\* A lone semicolon, a plain line, a line with spaces at both ends, a blank
\* line, a key line and a section comment.
BlockLineKinds ==
    {";", "Line one", "  Line two  ", "", "_mpif_product_color\t'red'", "#Section 3"}

NoteText(ds) ==
    "data_Test_20240101_Author\n"
    \o "_mpif_product_handling_note\n"
    \o JoinLines(ds)
    \o "_mpif_synthesis_react_note\n;\nOther note\n;\n"

NoteTexts == {NoteText(ds) : ds \in SeqsUpTo(BlockLineKinds, MaxBlockLines)}

InitBlock ==
    /\ lines = <<>>
    /\ content \in NoteTexts
    /\ data = NoData
    /\ text = ""
    /\ thrown = NoError
    /\ op = "init"
    /\ StoreCreated

SpecBlock == InitBlock /\ [][Parse]_vars

\* ------------------------------------------------------------------------
\* Texts with a substrate loop, a declared count and data lines of two kinds,
\* followed by nothing, a blank line or a section comment and then by a
\* solvent loop with one record
\* ------------------------------------------------------------------------

\* A substrate line with all ten columns and one with four.
SubstrateLineKinds ==
    {"R1\tsalt\t\t\t10\tmg\t\t\t\t?", "R2\tligand\t33\tmL"}

LoopSeparators == {"", "\n", "#Section 4b\n"}

PairText(c, ds, sep) ==
    "data_Test_20240101_Author\n"
    \o "_mpif_substrate_number\t" \o NatToString(c) \o "\nloop_\n"
    \o ReagentHeader("substrate") \o JoinLines(ds) \o sep
    \o "_mpif_solvent_number\t1\nloop_\n"
    \o ReagentHeader("solvent") \o "S1\twater\t\t\t5\tmL\t\t\t\t?\n"

PairTexts ==
    {PairText(c, ds, sep) : c \in 0..MaxCount,
                            ds \in SeqsUpTo(SubstrateLineKinds, MaxDataLines),
                            sep \in LoopSeparators}

InitPair ==
    /\ lines = <<>>
    /\ content \in PairTexts
    /\ data = NoData
    /\ text = ""
    /\ thrown = NoError
    /\ op = "init"
    /\ StoreCreated

SpecPair == InitPair /\ [][Parse]_vars

\* ------------------------------------------------------------------------
\* Texts with one PXRD or TGA block: the key, the opening ; and the two
\* column names, followed by lines of several kinds
\* ------------------------------------------------------------------------

\* A numeric pair, a lone semicolon, a key line, a section comment and a
\* blank line.
SeriesLineKinds == {"10\t100", ";", "_mpif_aif", "#Section 7", ""}

SeriesHeader ==
    [pxrd |-> "_mpif_pxrd_data\n;\nloop_\n_pxrd_2theta\n_pxrd_intensity\n",
     tga |-> "_mpif_tga_data\n;\nloop_\n_tga_temperature_celcius\n_tga_weight_percent\n"]

SeriesText(type, ds) ==
    "data_Test_20240101_Author\n" \o SeriesHeader[type] \o JoinLines(ds)

SeriesTexts ==
    {SeriesText(type, ds) : type \in DOMAIN SeriesHeader,
                            ds \in SeqsUpTo(SeriesLineKinds, MaxDataLines)}

InitSeries ==
    /\ lines = <<>>
    /\ content \in SeriesTexts
    /\ data = NoData
    /\ text = ""
    /\ thrown = NoError
    /\ op = "init"
    /\ StoreCreated

SpecSeries == InitSeries /\ [][Parse]_vars

\* ------------------------------------------------------------------------
\* The store (mpifStore.ts): the document, the dashboard state, the file
\* state and the validation result, and the actions that change them
\* ------------------------------------------------------------------------

\* obj[f], undefined when the object has no such property
Get(obj, f) == IF f \in DOMAIN obj THEN obj[f] ELSE Undefined

\* { ...a, ...b }
Merge(a, b) ==
    [k \in DOMAIN a \cup DOMAIN b |-> IF k \in DOMAIN b THEN b[k] ELSE a[k]]

\* a <= b and a < b on JavaScript values: false unless both are numbers
LessEq(a, b) == IsNum(a) /\ IsNum(b) /\ a.m * Pow10(b.e) <= b.m * Pow10(a.e)

Less(a, b) == IsNum(a) /\ IsNum(b) /\ a.m * Pow10(b.e) < b.m * Pow10(a.e)

\* new Error(message)
Error(message) == [t |-> "Error", message |-> message]

\* new Date() and its ISO date
NewDate == [t |-> "Date", time |-> Now]

Today == "2023-11-14"

\* Lines 38-91
createDefaultMPIFData ==
    [metadata |->
        [dataName |-> Str(""), creationDate |-> Str(Today),
         generatorVersion |-> Str("1.1"), publicationDOI |-> Str(""),
         procedureStatus |-> Str("test"), name |-> Str(""), email |-> Str(""),
         orcid |-> Str(""), address |-> Str(""), phone |-> Str("")],
     productInfo |->
        [type |-> Str("other"), casNumber |-> Str(""), ccdcNumber |-> Str(""),
         commonName |-> Str(""), systematicName |-> Str(""), formula |-> Str(""),
         formulaWeight |-> Num(0, 0), state |-> Str("other"), color |-> Str(""),
         handlingAtmosphere |-> Str("other"), handlingNote |-> Str("")],
     synthesisGeneral |->
        [performedDate |-> Str(""), labTemperature |-> Num(0, 0),
         labHumidity |-> Num(0, 0), reactionType |-> Str("other"),
         reactionTemperature |-> Num(0, 0), temperatureController |-> Str("other"),
         reactionTime |-> Num(0, 0), reactionTimeUnit |-> Str("h"),
         reactionAtmosphere |-> Str("other"), reactionContainer |-> Str(""),
         reactionNote |-> Str(""), productAmount |-> Num(0, 0),
         productAmountUnit |-> Str("g"), productYield |-> Num(0, 0),
         scale |-> Str("milligram"), safetyNote |-> Str("")],
     synthesisDetails |->
        [substrates |-> <<>>, solvents |-> <<>>, vessels |-> <<>>,
         hardware |-> <<>>, steps |-> <<>>, procedureFull |-> Str("")],
     characterization |-> <<>>]

\* One entry of the error list.
ValidationError(field, message, section) ==
    [field |-> field, message |-> message, section |-> section]

\* errors.push(...) when the condition holds
PushIf(cond, field, message, section) ==
    IF cond THEN <<ValidationError(field, message, section)>> ELSE <<>>

\* !value || value.trim() === ''
Blank(value) == ~Truthy(value) \/ (IsStr(value) /\ Trim(value.v) = "")

\* The field name `<collection>[<index>].<field>` (the index is 0-based).
ItemField(c, n, f) == c \o "[" \o NatToString(n - 1) \o "]." \o f

\* Lines 134-179: the checks of one substrate or solvent.
ReagentErrors(c, label, r, n) ==
    PushIf(Blank(Get(r, "name")), ItemField(c, n, "name"),
           label \o " name is required", "synthesisDetails")
    \o PushIf(Get(r, "amount") = Undefined \/ LessEq(Get(r, "amount"), Num(0, 0)),
              ItemField(c, n, "amount"),
              label \o " amount is required and must be positive", "synthesisDetails")
    \o PushIf(Blank(Get(r, "amountUnit")), ItemField(c, n, "amountUnit"),
              label \o " amount unit is required", "synthesisDetails")

\* Lines 184-199
VesselErrors(v, n) ==
    PushIf(Blank(Get(v, "material")), ItemField("vessels", n, "material"),
           "Vessel material is required", "synthesisDetails")
    \o PushIf(Blank(Get(v, "type")), ItemField("vessels", n, "type"),
              "Vessel type is required", "synthesisDetails")

\* Lines 205-213
HardwareErrors(h, n) ==
    PushIf(Blank(Get(h, "generalName")), ItemField("hardware", n, "generalName"),
           "Hardware name is required", "synthesisDetails")

\* The concatenation of a sequence of sequences.
RECURSIVE Flatten(_)
Flatten(ss) == IF Len(ss) = 0 THEN <<>> ELSE Head(ss) \o Flatten(Tail(ss))

\* Lines 93-223
validateMPIFData(d) ==
    LET m == d.metadata
        g == d.synthesisGeneral
        details == d.synthesisDetails
        errors ==
            PushIf(~Truthy(Get(m, "dataName")), "dataName", "Data name is required", "metadata")
            \o PushIf(~Truthy(Get(m, "creationDate")), "creationDate",
                      "Creation date is required", "metadata")
            \o PushIf(~Truthy(Get(m, "name")), "name", "Author name is required", "metadata")
            \o PushIf(~Truthy(Get(m, "email")), "email", "Author email is required", "metadata")
            \o PushIf(~Truthy(Get(m, "orcid")), "orcid", "ORCID is required", "metadata")
            \o PushIf(~Truthy(Get(d.productInfo, "commonName")), "commonName",
                      "Common name is required", "productInfo")
            \o PushIf(LessEq(Get(g, "labTemperature"), Num(-27315, 2)), "labTemperature",
                      "Temperature must be above absolute zero", "synthesisGeneral")
            \o PushIf(\/ Less(Get(g, "labHumidity"), Num(0, 0))
                      \/ Less(Num(100, 0), Get(g, "labHumidity")), "labHumidity",
                      "Humidity must be between 0 and 100%", "synthesisGeneral")
            \o PushIf(LessEq(Get(g, "reactionTime"), Num(0, 0)), "reactionTime",
                      "Reaction time must be positive", "synthesisGeneral")
            \o Flatten([n \in 1..Len(details.substrates) |->
                          ReagentErrors("substrates", "Substrate", details.substrates[n], n)])
            \o Flatten([n \in 1..Len(details.solvents) |->
                          ReagentErrors("solvents", "Solvent", details.solvents[n], n)])
            \o Flatten([n \in 1..Len(details.vessels) |-> VesselErrors(details.vessels[n], n)])
            \o Flatten([n \in 1..Len(details.hardware) |->
                          HardwareErrors(details.hardware[n], n)])
    IN  [isValid |-> Len(errors) = 0, errors |-> errors]

\* stringifyMPIF(data): reading data.authorDetails.name throws when the
\* document has no authorDetails section (part_007 line 58).
stringifyMPIF(d) ==
    IF "authorDetails" \in DOMAIN d THEN stringify(d) ELSE TypeError

\* What loadMPIFFile is called with: the text of a file, or no text at all
\* (the parameter's type is not checked when the program runs), and a name.
StoreContents ==
    {Str(ReadmeText), Str("data_Test_20240101_Author\n" \o RequiredScalarText),
     Undefined}

FileNames == {"sample.mpif"}

\* The message of the TypeError content.split throws when content is
\* undefined.
SplitOfUndefined == "Cannot read properties of undefined (reading 'split')"

\* parseMPIF(content) for each of these contents (part_007 lines 609-612):
\* parse reads content.split (line 22) and throws when there is no text.
parseMPIF ==
    {<<c, IF IsStr(c) THEN parseLines(SplitLines(c.v)) ELSE TypeError>> :
        c \in StoreContents}

\* The parse threw: at once, or in one of its sections.
ParseFailed(doc) == IF doc = TypeError THEN TRUE ELSE Threw(doc)

\* The sections of the sidebar a user switches between, and the layouts.
SidebarSections == {"metadata", "productInfo"}

ColumnLayouts == {"single", "double"}

\* What the forms save: the author fields of the metadata form, a data name
\* cleared in it, the common name, the reaction time.
SectionUpdates ==
    {<<"metadata", [name |-> Str("A. Author"), email |-> Str("a@b.org"),
                    orcid |-> Str("0000-0002-1825-0097")]>>,
     <<"metadata", [dataName |-> Str("")]>>,
     <<"productInfo", [commonName |-> Str("MOF-5")]>>,
     <<"synthesisGeneral", [reactionTime |-> Num(16, 0)]>>}

\* loadMPIFFile with a catch block that also drops the document.
LoadCall_DropsSession(c, fileName) ==
    /\ \E parsed \in {p \in parseMPIF : p[1] = c} : \E doc \in {parsed[2]} :
          IF ParseFailed(doc)
          THEN /\ fileState' = [fileState EXCEPT !.isLoading = FALSE,
                                                 !.error = Str(SplitOfUndefined)]
               /\ data' = NoData
               /\ UNCHANGED <<validation, dashboard>>
          ELSE /\ data' = doc
               /\ fileState' = [fileName |-> Str(fileName), lastSaved |-> NewDate,
                                isLoading |-> FALSE, error |-> Undefined]
               /\ validation' = [isValid |-> TRUE, errors |-> <<>>]
               /\ dashboard' = [dashboard EXCEPT !.hasUnsavedChanges = FALSE,
                                                 !.isEditing = TRUE]
    /\ thrown' = NoError
    /\ UNCHANGED <<lines, content, text>>

\* Lines 247-280: what loadMPIFFile changes, whatever it is called from.
LoadCall(c, fileName) ==
    /\ \E parsed \in {p \in parseMPIF : p[1] = c} : \E doc \in {parsed[2]} :
          IF ParseFailed(doc)
          THEN /\ fileState' = [fileState EXCEPT !.isLoading = FALSE,
                                                 !.error = Str(SplitOfUndefined)]
               /\ UNCHANGED <<data, validation, dashboard>>
          ELSE /\ data' = doc
               /\ fileState' = [fileName |-> Str(fileName), lastSaved |-> NewDate,
                                isLoading |-> FALSE, error |-> Undefined]
               /\ validation' = [isValid |-> TRUE, errors |-> <<>>]
               /\ dashboard' = [dashboard EXCEPT !.hasUnsavedChanges = FALSE,
                                                 !.isEditing = TRUE]
    /\ thrown' = NoError
    /\ UNCHANGED <<lines, content, text>>

loadMPIFFile(c, fileName) ==
    /\ LoadCall(c, fileName)
    /\ op' = "loadMPIFFile"
    /\ UNCHANGED <<form, timers>>

\* Lines 282-303
createNewMPIF ==
    /\ data' = createDefaultMPIFData
    /\ fileState' = [fileName |-> Str("untitled.mpif"), lastSaved |-> Undefined,
                     isLoading |-> FALSE, error |-> Undefined]
    /\ validation' = [isValid |-> TRUE, errors |-> <<>>]
    /\ dashboard' = [dashboard EXCEPT !.hasUnsavedChanges = TRUE,
                                      !.isEditing = TRUE,
                                      !.currentSection = "metadata"]
    /\ thrown' = NoError
    /\ op' = "createNewMPIF"
    /\ UNCHANGED <<lines, content, text, form, timers>>

\* Lines 306-317: what updateSection changes, whatever it is called from.
UpdateCall(section, patch) ==
    /\ \E currentData \in {IF data # NoData THEN data ELSE createDefaultMPIFData} :
          data' = Merge(currentData,
                        [s \in {section} |-> Merge(Get(currentData, section), patch)])
    /\ dashboard' = [dashboard EXCEPT !.hasUnsavedChanges = TRUE]
    /\ thrown' = NoError
    /\ UNCHANGED <<lines, content, text, fileState, validation>>

updateSection(section, patch) ==
    /\ UpdateCall(section, patch)
    /\ op' = "updateSection"
    /\ UNCHANGED <<form, timers>>

\* Lines 319-323
setCurrentSection(section) ==
    /\ dashboard' = [dashboard EXCEPT !.currentSection = section]
    /\ thrown' = NoError
    /\ op' = "setCurrentSection"
    /\ UNCHANGED <<lines, content, data, text, fileState, validation, form, timers>>

\* Lines 326-330
setColumnLayout(mode) ==
    /\ dashboard' = [dashboard EXCEPT !.columnLayout = mode]
    /\ thrown' = NoError
    /\ op' = "setColumnLayout"
    /\ UNCHANGED <<lines, content, data, text, fileState, validation, form, timers>>

\* The copy exportMPIF writes out: generatorVersion forced to 1.0 (lines 338-344).
ExportData(d) ==
    Merge(d, [metadata |-> Merge(d.metadata, [generatorVersion |-> Str("1.0")])])

\* exportMPIF without the validation gate.
ExportCall_Ungated ==
    IF data = NoData
    THEN /\ thrown' = Error("No data to export")
         /\ UNCHANGED <<text, validation>>
    ELSE \E result \in {validateMPIFData(ExportData(data))} :
            /\ validation' = result
            /\ \E written \in {stringifyMPIF(ExportData(data))} :
                  IF written = TypeError
                  THEN thrown' = TypeError /\ text' = text
                  ELSE thrown' = NoError /\ text' = written.v

\* Lines 333-355: what exportMPIF changes, whatever else it is called from.
ExportCall ==
    IF data = NoData
    THEN /\ thrown' = Error("No data to export")
         /\ UNCHANGED <<text, validation>>
    ELSE \E result \in {validateMPIFData(ExportData(data))} :
            /\ validation' = result
            /\ IF ~result.isValid
               THEN /\ thrown' = Error("Cannot export: " \o NatToString(Len(result.errors))
                                       \o " validation errors found. Please fix the incomplete fields first.")
                    /\ text' = text
               ELSE \E written \in {stringifyMPIF(ExportData(data))} :
                       IF written = TypeError
                       THEN thrown' = TypeError /\ text' = text
                       ELSE thrown' = NoError /\ text' = written.v

exportMPIF ==
    /\ ExportCall
    /\ op' = "exportMPIF"
    /\ UNCHANGED <<lines, content, data, dashboard, fileState, form, timers>>

\* Lines 357-376
resetData ==
    /\ data' = NoData
    /\ fileState' = [fileName |-> Undefined, lastSaved |-> Undefined,
                     isLoading |-> FALSE, error |-> Undefined]
    /\ validation' = [isValid |-> TRUE, errors |-> <<>>]
    /\ dashboard' = [dashboard EXCEPT !.hasUnsavedChanges = FALSE,
                                      !.isEditing = FALSE]
    /\ thrown' = NoError
    /\ op' = "resetData"
    /\ UNCHANGED <<lines, content, text, form, timers>>

\* clearUnsavedChanges that only stamps the save time.
clearUnsavedChanges_KeepsFlag ==
    /\ fileState' = [fileState EXCEPT !.lastSaved = NewDate]
    /\ thrown' = NoError
    /\ op' = "clearUnsavedChanges"
    /\ UNCHANGED <<lines, content, data, text, validation, dashboard, form, timers>>

\* Lines 378-389
clearUnsavedChanges ==
    /\ dashboard' = [dashboard EXCEPT !.hasUnsavedChanges = FALSE]
    /\ fileState' = [fileState EXCEPT !.lastSaved = NewDate]
    /\ thrown' = NoError
    /\ op' = "clearUnsavedChanges"
    /\ UNCHANGED <<lines, content, data, text, validation, form, timers>>

\* Lines 391-400
validateData ==
    /\ IF data = NoData
       THEN UNCHANGED validation
       ELSE validation' = validateMPIFData(data)
    /\ thrown' = NoError
    /\ op' = "validateData"
    /\ UNCHANGED <<lines, content, data, text, dashboard, fileState, form, timers>>

InitStore ==
    /\ lines = <<>>
    /\ content = ""
    /\ data = NoData
    /\ text = ""
    /\ thrown = NoError
    /\ op = "init"
    /\ StoreCreated

NextStore ==
    \/ \E c \in StoreContents : \E fileName \in FileNames : loadMPIFFile(c, fileName)
    \/ createNewMPIF
    \/ \E u \in SectionUpdates : updateSection(u[1], u[2])
    \/ \E section \in SidebarSections : setCurrentSection(section)
    \/ \E mode \in ColumnLayouts : setColumnLayout(mode)
    \/ exportMPIF
    \/ resetData
    \/ clearUnsavedChanges
    \/ validateData

SpecStore == InitStore /\ [][NextStore]_vars

\* ------------------------------------------------------------------------
\* The dashboard (Dashboard.tsx) with the metadata form open
\* (MetadataForm.tsx): the user opens a file, edits fields and clicks Export;
\* the form's auto-save and the export run from timeouts
\* ------------------------------------------------------------------------

\* The delays of the two timeouts, in milliseconds.
SaveDelay == 500

ExportDelay == 100

\* What the user types into the metadata form: the three author fields, or a
\* new data name.
FormEdits ==
    {[name |-> Str("A. Author"), email |-> Str("a@b.org"),
      orcid |-> Str("0000-0002-1825-0097")],
     [dataName |-> Str("Sample_B")]}

\* The files the user drops: onDrop passes on a text that holds data_ or
\* _mpif_ (Dashboard.tsx lines 86-90).
DroppedFiles ==
    {c \in StoreContents :
        IF IsStr(c) THEN Includes(c.v, "data_") \/ Includes(c.v, "_mpif_") ELSE FALSE}

\* The auto-save effect of the form (MetadataForm.tsx lines 62-73) after a
\* render in which its dependencies changed: it clears the timeout it set and
\* sets a new one when the form is dirty.
AutoSave(isDirty) == IF isDirty THEN Timeout(SaveDelay) ELSE NoTimer

\* Dashboard.tsx lines 81-99: a dropped file is loaded; the form is reset to
\* the new metadata (MetadataForm.tsx lines 57-59).
onDrop(c, fileName) ==
    /\ timers.export = NoTimer
    /\ LoadCall(c, fileName)
    /\ form' = [values |-> data'.metadata, isDirty |-> FALSE]
    /\ timers' = [timers EXCEPT !.save = NoTimer]
    /\ op' = "onDrop"

\* The user changes fields of the form: isDirty compares the values with
\* those of the last reset; the effect runs when isDirty changes.
Edit(typed) ==
    /\ data # NoData
    /\ timers.export = NoTimer
    /\ \E values \in {Merge(form.values, typed)} :
          /\ values # form.values
          /\ form' = [values |-> values, isDirty |-> values # data.metadata]
          /\ timers' = IF form'.isDirty = form.isDirty
                       THEN timers
                       ELSE [timers EXCEPT !.save = AutoSave(form'.isDirty)]
    /\ op' = "edit"
    /\ UNCHANGED <<lines, content, data, text, thrown, dashboard, fileState, validation>>

\* Dashboard.tsx lines 169-193: the click blurs the active element (the
\* metadata form saves nothing on blur) and sets the export timeout.
handleExport ==
    /\ data # NoData
    /\ timers.export = NoTimer
    /\ timers' = [timers EXCEPT !.export = Timeout(ExportDelay)]
    /\ op' = "handleExport"
    /\ UNCHANGED <<lines, content, data, text, thrown, dashboard, fileState,
                   validation, form>>

\* A timeout is due.
Due(timer) == timer # NoTimer /\ timer.left = 0

\* The timeout after ms more milliseconds.
After(timer, ms) ==
    IF timer = NoTimer THEN NoTimer ELSE Timeout(timer.left - ms)

\* Time passes, one export delay at a time, while no timeout is due.
Tick ==
    /\ timers.save # NoTimer \/ timers.export # NoTimer
    /\ ~Due(timers.save)
    /\ ~Due(timers.export)
    /\ timers' = [save |-> After(timers.save, ExportDelay),
                  export |-> After(timers.export, ExportDelay)]
    /\ op' = "tick"
    /\ UNCHANGED <<lines, content, data, text, thrown, dashboard, fileState,
                   validation, form>>

\* MetadataForm.tsx lines 66-68: the auto-save timeout fires; onSave is
\* updateSection of the current section (Dashboard.tsx line 205), and the new
\* metadata resets the form (lines 57-59).
AutoSaveFires ==
    /\ Due(timers.save)
    /\ UpdateCall(dashboard.currentSection, form.values)
    /\ form' = [values |-> data'.metadata, isDirty |-> FALSE]
    /\ timers' = [timers EXCEPT !.save = NoTimer]
    /\ op' = "autoSave"

\* Dashboard.tsx lines 172-191: the export timeout fires; a timeout set
\* earlier and due at the same time fires first.  A successful export is
\* followed by clearUnsavedChanges, an error is caught and logged.  The
\* store changed, so the dashboard renders again with a new onSave and the
\* auto-save effect runs again.
ExportFires ==
    /\ Due(timers.export)
    /\ ~Due(timers.save)
    /\ ExportCall
    /\ IF thrown' = NoError
       THEN /\ dashboard' = [dashboard EXCEPT !.hasUnsavedChanges = FALSE]
            /\ fileState' = [fileState EXCEPT !.lastSaved = NewDate]
       ELSE UNCHANGED <<dashboard, fileState>>
    /\ timers' = [save |-> AutoSave(form.isDirty), export |-> NoTimer]
    /\ op' = "export"
    /\ UNCHANGED <<lines, content, data, form>>

InitDashboard ==
    /\ lines = <<>>
    /\ content = ""
    /\ data = NoData
    /\ text = ""
    /\ thrown = NoError
    /\ op = "init"
    /\ StoreCreated

NextDashboard ==
    \/ \E c \in DroppedFiles : \E fileName \in FileNames : onDrop(c, fileName)
    \/ \E typed \in FormEdits : Edit(typed)
    \/ handleExport
    \/ Tick
    \/ AutoSaveFires
    \/ ExportFires

SpecDashboard == InitDashboard /\ [][NextDashboard]_vars

\* ------------------------------------------------------------------------
\* Properties
\* ------------------------------------------------------------------------

SectionNames ==
    {"metadata", "authorDetails", "productInfo", "synthesisGeneral",
     "synthesisDetails", "characterization"}

\* The text at hand has a line of the form data_<name>.
HasDataHeader ==
    \E ls \in {Split(content, "\n")} :
        \E i \in 1..Len(ls) :
            StartsWith(Trim(ls[i]), "data_") /\ Len(Trim(ls[i])) > Len("data_")

\* The multi-line text fields of a document, trimmed; every other field as is.
TrimText(v) == IF IsStr(v) THEN Str(Trim(v.v)) ELSE v

Normalised(d) ==
    [d EXCEPT !.productInfo.handlingNote = TrimText(@),
              !.synthesisGeneral.reactionNote = TrimText(@),
              !.synthesisGeneral.safetyNote = TrimText(@),
              !.synthesisDetails.procedureFull = TrimText(@),
              !.characterization.aif = TrimText(@)]

\* C1: every document parse returns is a fixed point of stringify followed by
\* parse, text fields compared after trimming.
C1_RoundTrip ==
    (op = "parse" /\ thrown = NoError)
        => \A d \in {parseLines(SplitLines(stringify(data).v))} :
              Normalised(d) = Normalised(data)

C3_LenientDecoding ==
    (op = "parse" /\ HasDataHeader)
        => /\ thrown = NoError
           /\ data # NoData
           /\ DOMAIN data = SectionNames

C3_Witness ==
    /\ op = "parse"
    /\ HasDataHeader
    /\ Includes(content, "P1\tPrep\nP2")
    /\ thrown = NoError
    /\ Len(data.synthesisDetails.steps) = 1

\* The value of an optional scalar in a document.
OptionalValue(d, f) ==
    CASE f = "publicationDOI" -> d.metadata[f]
      [] f \in {"address", "phone"} -> d.authorDetails[f]
      [] OTHER -> d.productInfo[f]

\* The text at hand has the key line of optional scalar f with value v.
WrittenAs(f, v) == \E i \in 1..Len(lines) : lines[i] = OptionalKey[f] \o "\t" \o v

\* C8: an optional scalar written as ? decodes to absent, one written as ''
\* decodes to the empty string.
C8_PlaceholderDistinction ==
    (op = "parse" /\ thrown = NoError)
        => \A f \in OptionalFields :
              /\ WrittenAs(f, "?") => OptionalValue(data, f) = Undefined
              /\ WrittenAs(f, "''") => OptionalValue(data, f) = Str("")

Min(a, b) == IF a < b THEN a ELSE b

\* The count the text declares for the procedure-steps loop.
DeclaredCount ==
    parseInt(Part(lines[findLineIndex(lines, "_mpif_procedure_number")], 2)).m

\* The last line of the field-name preamble of the procedure-steps loop.
PreambleEnd ==
    Least({i \in 1..Len(lines) : lines[i] = "_mpif_procedure_detail"})

WellFormed(line) == Len(Split(line, "\t")) >= Len(StepFields)

\* The lines from index from up to, and not including, the first line whose
\* index is in ends.
Before(from, ends) ==
    {i \in from..Len(lines) : \A j \in from..i : j \notin ends}

\* The blank lines, the comment lines and the lines that start with a key
\* of the given prefix.
EndLines(prefix) ==
    {j \in 1..Len(lines) :
        lines[j] = "" \/ StartsWith(lines[j], "#") \/ StartsWith(lines[j], prefix)}

FirstDataLine ==
    LET S == {i \in (PreambleEnd + 1)..Len(lines) :
                /\ lines[i] # ""
                /\ ~StartsWith(lines[i], "_mpif_")
                /\ ~StartsWith(lines[i], "loop_")}
    IN  IF S = {} THEN Len(lines) + 1 ELSE Least(S)

C4_EncoderTotality ==
    op = "stringify" => (thrown = NoError /\ StartsWith(text, "data_"))

\* The sample without any optional field, collection or series is written.
C4_Witness ==
    /\ op = "stringify"
    /\ data = WithoutSeries(
                  WithoutCollections(
                      WithoutOptionals(SampleDocument, DOMAIN OptionalOf), Collections),
                  Series)
    /\ thrown = NoError
    /\ StartsWith(text, "data_Test_20240101_Author\n")

\* The letter the identifiers of a collection start with.
Prefix ==
    [substrates |-> "R", solvents |-> "S", vessels |-> "V", hardware |-> "H",
     steps |-> "P"]

\* C5: the records read back from the text stringify wrote have the
\* identifiers R1..RN (S, V, H, P likewise), whatever identifiers the
\* document's records had.
C5_IdentifierRegeneration ==
    (op = "stringify" /\ thrown = NoError)
        => \A d \in {parseSynthesisDetails(SplitLines(text))} :
              \A c \in Collections :
                 \A i \in 1..Len(d[c]) : d[c][i].id = Str(Prefix[c] \o NatToString(i))

\* The word a collection's keys carry.
TypeOf ==
    [substrates |-> "substrate", solvents |-> "solvent", vessels |-> "vessel",
     hardware |-> "hardware", steps |-> "procedure"]

\* The _mpif_<type>_number lines for collection c among the lines ls.
NumberLines(ls, c) ==
    {ls[i] : i \in {j \in 1..Len(ls) :
                       StartsWith(ls[j], "_mpif_" \o TypeOf[c] \o "_number")}}

\* C6: for every non-empty collection the text stringify wrote has one
\* _mpif_<type>_number line, and it carries the collection's current length.
C6_CountDerivation ==
    (op = "stringify" /\ thrown = NoError)
        => \A ls \in {Split(text, "\n")} :
              \A c \in Collections :
                 Len(data.synthesisDetails[c]) > 0
                    => NumberLines(ls, c)
                         = {"_mpif_" \o TypeOf[c] \o "_number\t"
                              \o NatToString(Len(data.synthesisDetails[c]))}

\* The file declared two substrates; one was added before the document was
\* written.
C6_Witness ==
    /\ op = "stringify"
    /\ NumberLines(lines, "substrates") = {"_mpif_substrate_number\t2"}
    /\ Len(data.synthesisDetails.substrates) = 3
    /\ Includes(text, "\n_mpif_substrate_number\t3\n")

\* The multi-line text field of document d that key k holds.
BlockValue(d, k) ==
    CASE k = "_mpif_product_handling_note" -> d.productInfo.handlingNote
      [] k = "_mpif_synthesis_react_note" -> d.synthesisGeneral.reactionNote
      [] k = "_mpif_synthesis_safety_note" -> d.synthesisGeneral.safetyNote
      [] k = "_mpif_procedure_full" -> d.synthesisDetails.procedureFull
      [] k = "_mpif_aif" -> d.characterization.aif

\* The lines ls have key k, a lone ;, Line one, Line two and a lone ;.
HasBlock(ls, k) ==
    \E i \in 1..(Len(ls) - 4) :
        /\ ls[i] = k
        /\ ls[i + 1] = ";"
        /\ ls[i + 2] = "Line one"
        /\ ls[i + 3] = "Line two"
        /\ ls[i + 4] = ";"

\* stringify writes the three notes always, the full procedure and the AIF
\* text when they are not empty.
Emitted(d, k) ==
    k \in {"_mpif_procedure_full", "_mpif_aif"} => Truthy(BlockValue(d, k))

\* Among the lines ls: key k on a line of its own, a lone ;, the lines of
\* value v and a lone ;.
WrittenAsBlock(ls, k, v) ==
    \E body \in {Split(v, "\n")} :
        \E i \in 1..(Len(ls) - Len(body) - 2) :
            /\ ls[i] = k
            /\ ls[i + 1] = ";"
            /\ SubSeq(ls, i + 2, i + 1 + Len(body)) = body
            /\ ls[i + 2 + Len(body)] = ";"

\* Among the lines ls: key k with a value on its line.
WrittenUnwrapped(ls, k) ==
    \E i \in 1..Len(ls) : StartsWith(ls[i], k) /\ ls[i] # k

\* C9: the two-line block decodes to "Line one\nLine two", and every
\* multi-line field stringify writes is a key line, a lone ;, the content and
\* a lone ;, never the key with a value on its line.
C9_BlockFidelity ==
    /\ op = "parse"
          => \A k \in BlockKeys :
                HasBlock(lines, k) => BlockValue(data, k) = Str("Line one\nLine two")
    /\ (op = "stringify" /\ thrown = NoError)
          => \A ls \in {Split(text, "\n")} :
                \A k \in BlockKeys :
                   Emitted(data, k)
                      => /\ WrittenAsBlock(ls, k, OrElse(BlockValue(data, k), ""))
                         /\ ~WrittenUnwrapped(ls, k)

\* A safety note read from a two-line block and written as a block again.
C9_Witness ==
    /\ op = "stringify"
    /\ HasBlock(lines, "_mpif_synthesis_safety_note")
    /\ data.synthesisGeneral.safetyNote = Str("Line one\nLine two")
    /\ Includes(text, "_mpif_synthesis_safety_note\n;\nLine one\nLine two\n;\n")

\* C10: the PXRD series read back from the text stringify wrote has the
\* source and the pairs of the document's series, in order.
C10_PXRDRoundTrip ==
    (op = "stringify" /\ thrown = NoError /\ Present(data.characterization.pxrd))
        => \A p \in {parsePXRD(SplitLines(text))} :
              /\ Present(p)
              /\ p.source = data.characterization.pxrd.source
              /\ p.data = data.characterization.pxrd.data

\* Source Cu and the pairs (5.0, 100), (5.1, 150), (5.2, 120).
C10_Witness ==
    /\ op = "stringify"
    /\ Present(data.characterization.pxrd)
    /\ data.characterization.pxrd.source = Str("Cu")
    /\ data.characterization.pxrd.data = PXRDPoints(3)
    /\ Includes(text, "_pxrd_intensity\n5\t100\n5.1\t150\n5.2\t120\n;")
    /\ parsePXRD(SplitLines(text)).data = PXRDPoints(3)

\* The text at hand is a data_<name> line followed by metadata and author
\* scalar lines only.
MinimalText ==
    /\ Len(lines) > 0
    /\ StartsWith(lines[1], "data_")
    /\ Len(lines[1]) > Len("data_")
    /\ \A i \in 2..Len(lines) : lines[i] = "" \/ StartsWith(lines[i], "_mpif_audit_")

\* Every series a characterization can hold.
AllSeries == {"pxrd", "tga", "adsorption", "desorption", "aif"}

\* C11: a text with only a data_<name> line and metadata and author scalar
\* lines decodes without error to a document named <name> with five empty
\* collections and no series.
C11_MinimalDocument ==
    (op = "parse" /\ MinimalText)
        => /\ thrown = NoError
           /\ data # NoData
           /\ data.metadata.dataName
                = Str(SubSeq(lines[1], Len("data_") + 1, Len(lines[1])))
           /\ \A c \in Collections : data.synthesisDetails[c] = <<>>
           /\ \A s \in AllSeries : data.characterization[s] = Undefined

\* The header, the required scalars and an author address.
C11_Witness ==
    /\ op = "parse"
    /\ MinimalText
    /\ Includes(content, "_mpif_audit_contact_author_address\t'x y'")
    /\ data.metadata.dataName = Str("Test_20240101_Author")
    /\ data.authorDetails.address = Str("x y")
    /\ data.synthesisDetails.substrates = <<>>

\* The part of the text a line's key belongs to, in the canonical order:
\* 2 metadata, 3 author, 4 product, 5 synthesis general, 6 substrates,
\* 7 solvents, 8 vessels, 9 hardware, 10 procedure steps, 11 full procedure,
\* 12 PXRD, 13 TGA, 14 AIF; 0 for a line that carries no such key.
PartOf(line) ==
    IF StartsWith(line, "_mpif_audit_contact_") THEN 3
    ELSE IF StartsWith(line, "_mpif_audit_") THEN 2
    ELSE IF StartsWith(line, "_mpif_product_") THEN 4
    ELSE IF StartsWith(line, "_mpif_synthesis_") THEN 5
    ELSE IF StartsWith(line, "_mpif_substrate_") THEN 6
    ELSE IF StartsWith(line, "_mpif_solvent_") THEN 7
    ELSE IF StartsWith(line, "_mpif_vessel_") THEN 8
    ELSE IF StartsWith(line, "_mpif_hardware_") THEN 9
    ELSE IF StartsWith(line, "_mpif_procedure_full") THEN 11
    ELSE IF StartsWith(line, "_mpif_procedure_") THEN 10
    ELSE IF StartsWith(line, "_mpif_pxrd_") \/ StartsWith(line, "_pxrd_") THEN 12
    ELSE IF StartsWith(line, "_mpif_tga_") \/ StartsWith(line, "_tga_") THEN 13
    ELSE IF StartsWith(line, "_mpif_aif") THEN 14
    ELSE 0

IsKeyed(part) == part > 0

\* The parts of the keyed lines of the text stringify returned, in the order
\* of the lines.
PartsOfText ==
    LET ls == Split(text, "\n")
    IN  SelectSeq(Tuple([i \in 1..Len(ls) |-> PartOf(ls[i])]), IsKeyed)

\* C12: the text starts with the data_ line, and no keyed line comes before
\* a keyed line of an earlier part.
C12_CanonicalOrder ==
    (op = "stringify" /\ thrown = NoError)
        => /\ StartsWith(text, "data_")
           /\ \A ps \in {PartsOfText} :
                 \A i \in 1..(Len(ps) - 1) : ps[i] <= ps[i + 1]

\* A document with all thirteen keyed parts, one after the other.
C12_Witness ==
    /\ op = "stringify"
    /\ data = SampleDocument
    /\ \A ps \in {PartsOfText} :
          /\ {ps[i] : i \in 1..Len(ps)} = 2..14
          /\ \A i \in 1..(Len(ps) - 1) : ps[i] <= ps[i + 1]

\* C13: on one parser instance, whatever calls came before, a parse returns
\* the document of its text alone, read from the lines of that text and no
\* others, and a stringify returns the text of its document alone.
C13_Determinism ==
    /\ op = "parse" =>
          /\ lines = SplitLines(content)
          /\ thrown = NoError
          /\ data = parseLines(SplitLines(content))
    /\ op = "stringify" =>
          /\ thrown = NoError
          /\ text = stringify(data).v

\* A parse of the README example made after another text was decoded and
\* encoded on the same instance.
C13_Witness ==
    /\ op = "parse"
    /\ content = ReadmeText
    /\ StartsWith(text, "data_Test_20240101_Author\n")
    /\ data.metadata.dataName = Str("WaaF-1_20250311_Shun-Tokuda")

\* The field-name lines of the substrate loop of the text decoded last, and
\* the lines that follow them up to the first blank, key or comment line.
SubstratePreamble ==
    {i \in 1..Len(lines) : StartsWith(lines[i], "_mpif_substrate_")
                              /\ ~StartsWith(lines[i], "_mpif_substrate_number")}

SubstrateRows ==
    IF SubstratePreamble = {} THEN {}
    ELSE LET from == Least({i \in 1..(Len(lines) + 1) :
                               /\ i \notin SubstratePreamble
                               /\ \A j \in SubstratePreamble : j < i})
         IN {i \in from..Len(lines) :
                \A j \in from..i : /\ lines[j] # ""
                                    /\ ~StartsWith(lines[j], "_")
                                    /\ ~StartsWith(lines[j], "#")}

\* C14: a substrate loop whose preamble lists k field names and whose data
\* lines all have k tab-separated columns decodes to one substrate per data
\* line, up to the declared count, each with the identifier of its line; the
\* README example, with k = 4 and a declared count of 2, decodes to R1 and R2.
C14_LoopWidthFollowsPreamble ==
    (/\ op = "parse"
     /\ SubstrateRows # {}
     /\ \A i \in SubstrateRows :
            Len(Split(lines[i], "\t")) = Cardinality(SubstratePreamble))
        => \E s \in {data.synthesisDetails.substrates} :
              /\ Len(s) = Min(Cardinality(SubstrateRows),
                              parseInt(extractValue(lines, "_mpif_substrate_number")).m)
              /\ \A n \in 1..Len(s) :
                    s[n].id = Part(lines[Least(SubstrateRows) + n - 1], 1)

\* The text decoded last has no line with the key.
NoKeyLine(key) == \A i \in 1..Len(lines) : ~StartsWith(lines[i], key)

\* C15: an optional scalar (DOI, address, phone, CAS number, CCDC number,
\* systematic name, formula, formula weight, yield) whose key occurs on no
\* line of the text decodes to absent, not to the empty string or another
\* value.
C15_AbsentIsNotEmpty ==
    (op = "parse" /\ thrown = NoError)
        => /\ \A f \in OptionalFields :
                 NoKeyLine(OptionalKey[f]) => OptionalValue(data, f) = Undefined
           /\ NoKeyLine("_mpif_product_formula_weight")
                 => data.productInfo.formulaWeight = Undefined
           /\ NoKeyLine("_mpif_synthesis_product_yield_percent")
                 => data.synthesisGeneral.productYield = Undefined

\* The lines of ls with an index in S, in order, joined by line breaks.
RECURSIVE JoinFrom(_, _)
JoinFrom(ls, S) ==
    IF S = {} THEN ""
    ELSE LET i == Least(S)
         IN  IF S = {i} THEN ls[i] ELSE ls[i] \o "\n" \o JoinFrom(ls, S \ {i})

\* The handling-note key line of a sequence of lines, and the first
\* non-blank line after it (0 when there is none).
NoteKey(ls) == findLineIndex(ls, "_mpif_product_handling_note")

FirstAfterKey(ls) ==
    LET after == {i \in (NoteKey(ls) + 1)..Len(ls) : Trim(ls[i]) # ""}
    IN  IF NoteKey(ls) = 0 \/ after = {} THEN 0 ELSE Least(after)

IsTerminator(line) ==
    line = ";" \/ StartsWith(line, "_") \/ StartsWith(line, "#")

\* The handling note of the text decoded last has content and no opening ;.
Degraded ==
    /\ FirstAfterKey(lines) > 0
    /\ ~IsTerminator(lines[FirstAfterKey(lines)])

\* The non-blank lines from the first content line up to the first lone ;,
\* key line or comment line after it.
DegradedContent ==
    LET first == FirstAfterKey(lines)
        stop == Least({i \in (first + 1)..(Len(lines) + 1) :
                          i = Len(lines) + 1 \/ IsTerminator(lines[i])})
    IN  {i \in first..(stop - 1) : lines[i] # ""}

\* C19: a text block without its opening ; decodes to the non-blank lines
\* from the first content line up to, and not including, the first following
\* lone ; or line that starts with _ or #; nothing at or after that line is
\* part of the decoded text.
C19_DegradedBlock ==
    (op = "parse" /\ Degraded)
        => data.productInfo.handlingNote = Str(JoinFrom(lines, DegradedContent))

\* Two content lines with a blank line between them, ended by a lone ;.
C19_Witness ==
    /\ op = "parse"
    /\ Degraded
    /\ content = NoteText(<<"Line one", "", "  Line two  ", ";">>)
    /\ data.productInfo.handlingNote = Str("Line one\nLine two")
    /\ data.synthesisGeneral.reactionNote = Str("Other note")

\* The lines of the text at hand as they are in the text, untrimmed.
RawLines == Split(content, "\n")

\* The index of the opening ; of the handling note in a sequence of lines
\* (0 when the note has none), and of its closing ; (one past the end when
\* the block is never closed).
OpeningLine(ls) ==
    LET first == FirstAfterKey(ls)
    IN  IF first > 0 /\ Trim(ls[first]) = ";" THEN first ELSE 0

ClosingLine(ls) ==
    Least({i \in (OpeningLine(ls) + 1)..(Len(ls) + 1) :
              i = Len(ls) + 1 \/ Trim(ls[i]) = ";"})

Greatest(S) == CHOOSE i \in S : \A j \in S : j <= i

\* The lines of a ;-delimited handling note from its first to its last
\* non-blank content line.
BlockBody(ls) ==
    LET inner == {i \in (OpeningLine(ls) + 1)..(ClosingLine(ls) - 1) : Trim(ls[i]) # ""}
    IN  IF inner = {} THEN {} ELSE Least(inner)..Greatest(inner)

\* C16: a ;-delimited text block decodes to its content lines from the first
\* to the last non-blank one, character for character as they are in the
\* text, with their leading and trailing spaces and the blank lines between
\* them.
C16_BlockContentUntrimmed ==
    (op = "parse" /\ OpeningLine(RawLines) > 0)
        => data.productInfo.handlingNote =
              (IF BlockBody(RawLines) = {} THEN Undefined
               ELSE Str(JoinFrom(RawLines, BlockBody(RawLines))))

\* C20: a text-block key directly followed by another key line or by a
\* comment line decodes as absent; content that lies after a later key line
\* is never returned for it.
C20_BlockIsolation ==
    (/\ op = "parse"
     /\ NoteKey(lines) > 0
     /\ NoteKey(lines) < Len(lines)
     /\ \/ StartsWith(lines[NoteKey(lines) + 1], "_")
        \/ StartsWith(lines[NoteKey(lines) + 1], "#"))
        => data.productInfo.handlingNote = Undefined

\* What follows the key on the first line that starts with it, without the
\* white space around it ("" when no line starts with the key or the key is
\* not followed by a space or a tab).
ValueAfter(key) ==
    LET i == findLineIndex(lines, key)
    IN  IF i = 0 THEN ""
        ELSE IF CharAt(lines[i], Len(key) + 1) \notin {" ", "\t"} THEN ""
        ELSE Trim(SubSeq(lines[i], Len(key) + 1, Len(lines[i])))

\* C17: the value of a scalar line decodes to what follows the key, whether
\* a tab or spaces separate the two.
C17_ScalarDelimiter ==
    (op = "parse" /\ ValueAfter("_mpif_audit_creation_date") # "")
        => data.metadata.creationDate = Str(ValueAfter("_mpif_audit_creation_date"))

\* The value s is wrapped in single quotes.
IsQuoted(s) == Len(s) >= 2 /\ CharAt(s, 1) = "'" /\ CharAt(s, Len(s)) = "'"

\* C18: a quoted author name decodes to exactly the characters between the
\* opening and the closing quote, an apostrophe among them included; the name
\* of a document is the name decoded from the text written from it.
C18_OnlyWrappingQuotesStripped ==
    /\ (op = "parse" /\ IsQuoted(ValueAfter("_mpif_audit_contact_author_name")))
          => \E v \in {ValueAfter("_mpif_audit_contact_author_name")} :
                data.authorDetails.name = Str(SubSeq(v, 2, Len(v) - 1))
    /\ (op = "stringify" /\ thrown = NoError)
          => parseAuthorDetails(SplitLines(text)).name = data.authorDetails.name

\* C21: every substrate decoded comes from a data line between the
\* substrate preamble and the first following blank, comment or key line; a
\* substrate loop with no data line of its own decodes as empty, whatever
\* loop follows it.
C21_LoopIsolation ==
    op = "parse"
        => \A n \in 1..Len(data.synthesisDetails.substrates) :
              \E i \in SubstrateRows :
                 data.synthesisDetails.substrates[n].id = Part(lines[i], 1)

\* The last column-name line of each series.
LastColumnName == [pxrd |-> "_pxrd_intensity", tga |-> "_tga_weight_percent"]

IsSeriesEnd(line) ==
    line = ";" \/ StartsWith(line, "_mpif_") \/ StartsWith(line, "#")

\* The lines of the numeric table of a series in the text decoded last: those
\* after the column names and before the first lone ;, key line or comment.
TableLines(type) ==
    LET h == findLineIndex(lines, LastColumnName[type])
    IN  IF h = 0 THEN {}
        ELSE {i \in (h + 1)..Len(lines) : \A j \in (h + 1)..i : ~IsSeriesEnd(lines[j])}

\* The points decoded for a series.
PointsOf(type) ==
    IF data.characterization[type] = Undefined THEN <<>>
    ELSE data.characterization[type].data

\* C22: a PXRD or TGA series holds the numeric pairs of its table up to the
\* first lone ;, _mpif_ key line or # comment line after the column names,
\* and no pair from a line after that.
C22_SubBlockTermination ==
    op = "parse"
        => \A type \in DOMAIN LastColumnName :
              Len(PointsOf(type)) =
                 Cardinality({i \in TableLines(type) : Includes(lines[i], "\t")})

\* C23: the text written from a document with a TGA series decodes to a
\* TGA series with the same pairs in the same order.
C23_TGARoundTrip ==
    (/\ op = "stringify"
     /\ thrown = NoError
     /\ Present(data.characterization.tga)
     /\ Len(data.characterization.tga.data) >= 1)
        => \E tga \in {parseTGA(SplitLines(text))} :
              /\ Present(tga)
              /\ tga.data = data.characterization.tga.data

\* The text decoded last has a line whose key token is exactly key.
HasExactLine(key) ==
    \E i \in 1..Len(lines) :
        \/ lines[i] = key
        \/ StartsWith(lines[i], key \o "\t")
        \/ StartsWith(lines[i], key \o " ")

\* C24: a scalar whose own key line is missing decodes as it does for a text
\* without any line for it (formula absent, reaction time and product amount
\* 0), also when the text has a line for a longer key that starts with its
\* key.
C24_ExactKeyMatch ==
    op = "parse"
        => /\ ~HasExactLine("_mpif_product_formula")
                 => data.productInfo.formula = Undefined
           /\ ~HasExactLine("_mpif_synthesis_react_time")
                 => data.synthesisGeneral.reactionTime = Num(0, 0)
           /\ ~HasExactLine("_mpif_synthesis_product_amount")
                 => data.synthesisGeneral.productAmount = Num(0, 0)

\* C25: every multi-line text of a document that stringify writes decodes
\* from the text written to the whole of it, trimmed at both ends, also when
\* it has a line that is a lone ; in it.
C25_OpaqueEmbeddedText ==
    (op = "stringify" /\ thrown = NoError)
        => \A ls \in {SplitLines(text)} :
              \A k \in BlockKeys :
                 Truthy(BlockValue(data, k))
                    => extractTextBlock(ls, k) = TrimText(BlockValue(data, k))

\* The records decoded for collection c from lines ls.
DecodedRecords(ls, c) == parseSynthesisDetails(ls)[c]

\* The data lines of the loop of collection c among lines ls: the lines after
\* its last field-name line up to the first blank line.
LoopRows(ls, c) ==
    LET names == {i \in 1..Len(ls) : StartsWith(ls[i], "_mpif_" \o TypeOf[c] \o "_")
                                       /\ ~StartsWith(ls[i], "_mpif_" \o TypeOf[c] \o "_number")
                                       /\ ~StartsWith(ls[i], "_mpif_procedure_full")}
    IN  IF names = {} THEN {}
        ELSE {i \in (Greatest(names) + 1)..Len(ls) :
                 \A j \in (Greatest(names) + 1)..i : ls[j] # ""}

\* C26: for each collection of length n, stringify writes n data lines after
\* the field names and the text decodes to a collection of length n.
C26_CollectionLengthPreserved ==
    (op = "stringify" /\ thrown = NoError)
        => \A raw \in {Split(text, "\n")} :
              \A c \in Collections :
                 /\ Cardinality(LoopRows(raw, c)) = Len(data.synthesisDetails[c])
                 /\ Len(DecodedRecords(SplitLines(text), c)) = Len(data.synthesisDetails[c])

\* What a call loadMPIFFile leaves behind, given what parseMPIF returned for
\* its content.
LoadOutcome(doc) ==
    IF ParseFailed(doc)
    THEN /\ data' = data
         /\ fileState'.fileName = fileState.fileName
         /\ dashboard' = dashboard
         /\ fileState'.error = Str(SplitOfUndefined)
         /\ fileState'.isLoading = FALSE
    ELSE /\ fileState'.error = Undefined
         /\ fileState'.isLoading = FALSE

\* C27: a load whose parse throws leaves the document, the file name and the
\* dashboard flags as they were, records the error message and ends with
\* isLoading false; a load whose parse succeeds ends with no error and
\* isLoading false; isLoading is false in every state between calls.
C27_FailedLoadKeepsSession ==
    /\ fileState.isLoading = FALSE
    /\ [][/\ fileState'.isLoading = FALSE
          /\ \A p \in parseMPIF : \A fileName \in FileNames :
                loadMPIFFile(p[1], fileName) => LoadOutcome(p[2])]_vars

\* A load failed while a document with unsaved changes was open, and both
\* are still there.
C27_Witness ==
    /\ op = "loadMPIFFile"
    /\ fileState.error = Str(SplitOfUndefined)
    /\ data # NoData
    /\ dashboard.hasUnsavedChanges
    /\ fileState.fileName = Str("untitled.mpif")

\* C28: exportMPIF returns text only for a loaded document whose exported
\* copy validates without errors, and that text is the copy's, with generator
\* version 1.0; with no document or with validation errors it throws and
\* returns no text; the stored document, the dashboard and the file state
\* are never changed by it, only validation is.
C28_ExportGating ==
    [][op' = "exportMPIF" =>
         /\ data' = data
         /\ dashboard' = dashboard
         /\ fileState' = fileState
         /\ IF data = NoData
            THEN thrown' = Error("No data to export") /\ text' = text /\ validation' = validation
            ELSE /\ validation' = validateMPIFData(ExportData(data))
                 /\ ~validation'.isValid => thrown' # NoError /\ text' = text
                 /\ thrown' = NoError =>
                      /\ validation'.isValid
                      /\ text' = stringify(ExportData(data)).v
                      /\ Includes(text', "_mpif_audit_generator_version\t1.0\n")
                 /\ thrown' # NoError => text' = text]_vars

\* An export returned text with generator version 1.0 while the stored
\* document keeps its own version.
C28_Witness ==
    /\ op = "exportMPIF"
    /\ thrown = NoError
    /\ Includes(text, "_mpif_audit_generator_version\t1.0\n")
    /\ data # NoData
    /\ data.metadata.generatorVersion # Str("1.0")
    /\ validation.isValid

\* C29: hasUnsavedChanges starts false; createNewMPIF and updateSection set
\* it, a successful loadMPIFFile, resetData and clearUnsavedChanges clear it,
\* and setCurrentSection, setColumnLayout, validateData, exportMPIF and a
\* failed loadMPIFFile leave it as it was: so it is true exactly when the last
\* setting action came after the last clearing one.
C29_DirtyFlagProtocol ==
    /\ dashboard.hasUnsavedChanges = FALSE
    /\ [][/\ op' \in {"createNewMPIF", "updateSection"} =>
               dashboard'.hasUnsavedChanges = TRUE
          /\ op' \in {"resetData", "clearUnsavedChanges"} =>
               dashboard'.hasUnsavedChanges = FALSE
          /\ op' = "loadMPIFFile" =>
               dashboard'.hasUnsavedChanges =
                   IF fileState'.error = Undefined
                   THEN FALSE ELSE dashboard.hasUnsavedChanges
          /\ op' \in {"setCurrentSection", "setColumnLayout", "validateData",
                      "exportMPIF"} =>
               dashboard'.hasUnsavedChanges = dashboard.hasUnsavedChanges]_vars

\* Changes were saved and cleared, and the document was edited again.
C29_Witness ==
    /\ op = "updateSection"
    /\ dashboard.hasUnsavedChanges
    /\ fileState.lastSaved # Undefined
    /\ text # ""

\* C30: the text of every successful export is the text of the stored
\* document with the values of the form in it: every edit made before the
\* click on Export has reached the store when exportMPIF runs.
C30_ExportSeesLatestEdit ==
    [][(op' = "export" /\ thrown' = NoError) =>
          text' = stringify(ExportData(Merge(data, [metadata |-> form.values]))).v]_vars

====
